---- MODULE Spec2Model ----
(***************************************************************************)
(* A model of github.com/mraramalho/toolkit (tools.go).                    *)
(*                                                                         *)
(* Spec      : one call of Tools.RunServer: the caller's thread, the       *)
(*             background serving goroutine, the server handle, the        *)
(*             context, the signal channel and a discrete clock.           *)
(* SpecJSON  : one call of Tools.ReadJSON on a request body drawn from a   *)
(*             small alphabet of JSON tokens.                              *)
(* SpecResp  : one call of Tools.WriteJSON or Tools.ErrorJSON on a         *)
(*             response writer.                                            *)
(* SpecUpload: one call of Tools.UploadFiles or Tools.UploadOneFile on a   *)
(*             multipart request of a few file parts.                      *)
(* SpecSlug  : one call of Tools.Slugfy and a second call on its result.   *)
(* SpecRand  : one call of Tools.RandomString, draw by draw.               *)
(* SpecRace  : concurrent calls of Tools.UploadFiles on one shared Tools.  *)
(* SpecPush  : one call of Tools.PushJSONToRemote.                         *)
(* SpecTools : a sequence of calls of the methods on one shared Tools.     *)
(***************************************************************************)
EXTENDS Integers, Sequences, FiniteSets, TLC

(***************************************************************************)
(* Bounds of the model.                                                    *)
(***************************************************************************)
\* largest shutdownTimeout (in clock ticks) a call is given
MaxTimeout == 1
\* ticks the clock may advance while RunServer waits in its select
WaitHorizon == 1
\* requests that can be in flight on the server at once
MaxInFlight == 1
\* longest certKeyFiles argument list
MaxCertArgs == 3
\* longest request body, in tokens
MaxBody == 4

MaxTime == WaitHorizon + MaxTimeout

VARIABLES
    \* ---- RunServer: inputs
    shutdownTimeout,   \* the shutdownTimeout argument
    certKeyFiles,      \* len(certKeyFiles)
    tlsConfig,         \* srv.TLSConfig: "nil", "empty", "certs", "getCert"
    signalChanSet,     \* t.signalChan != nil
    \* ---- RunServer: the caller's thread
    pc,                \* "off","start","sigsetup","wait","drain","inShutdown","close","done"
    trigger,           \* the select case taken: "none","serverErr","signal","ctx"
    ret,               \* the value RunServer returned
    calls,             \* the calls RunServer made on srv, in order
    shutdownRes,       \* what srv.Shutdown returned
    closeRes,          \* what srv.Close returned
    deadline,          \* the deadline of shutdownCtx (-1: not created)
    drainStart,        \* the time the drain began (-1: not begun)
    retTime,           \* the time RunServer returned (-1: not returned)
    \* ---- RunServer: the serving goroutine
    gpc,               \* "none","ready","calling","serving","returned","closing","exited"
    variant,           \* the listener started: "none","tlsFiles","tlsConfig","http"
    listenCalls,       \* listen-and-serve calls made
    gerr,              \* what the listen-and-serve call returned
    sends,             \* values sent on serverErrChan
    closes,            \* close(serverErrChan) executions
    \* ---- RunServer: channels, context, server, clock
    serverErrChan,     \* the buffer of serverErrChan (capacity 1)
    chanClosed,        \* serverErrChan is closed
    stop,              \* values pending on the stop channel (capacity 1)
    notifyOn,          \* signal.Notify has subscribed the stop channel
    ctxDone,           \* ctx.Done() is closed
    cancelTime,        \* the time ctx was canceled (-1: not canceled)
    inShutdown,        \* srv is shutting down or closed
    inFlight,          \* requests in flight on srv
    now,               \* the clock
    \* ---- one call of ReadJSON: its inputs and results
    jsonCall,
    \* ---- one call of WriteJSON or ErrorJSON: its inputs and results
    respCall,
    \* ---- one call of UploadFiles or UploadOneFile: its inputs and results
    uploadCall,
    \* ---- one call of Slugfy: its input and results
    slugCall,
    \* ---- one call of RandomString: its input, its loop and its result
    randCall,
    \* ---- two concurrent calls of UploadFiles on one shared Tools
    raceCall,
    \* ---- one call of PushJSONToRemote: its inputs and results
    pushCall,
    \* ---- a sequence of calls on one shared Tools: the configuration and the last call
    toolsCall

\* ---- ReadJSON
jpc == jsonCall.jpc                               \* "off","call","done"
body == jsonCall.body                             \* the request body, a sequence of tokens
MaxJSONSize == jsonCall.MaxJSONSize               \* t.MaxJSONSize
AllowUnknownFields == jsonCall.AllowUnknownFields \* t.AllowUnknownFields
bodyEnd == jsonCall.bodyEnd                       \* the error that ends r.Body after its last byte
dataIsPointer == jsonCall.dataIsPointer           \* the data argument is a non-nil pointer
jraw == jsonCall.jraw                             \* the error of the first dec.Decode
jerr == jsonCall.jerr                             \* the error ReadJSON returned
\* ---- WriteJSON, ErrorJSON
wpc == respCall.wpc                \* "off","call","done"
called == respCall.called          \* the method called: "none","WriteJSON","ErrorJSON"
w0 == respCall.w0                  \* the response writer before the call
w == respCall.w                    \* the response writer
status == respCall.status          \* WriteJSON's status argument
data == respCall.data              \* WriteJSON's data argument
headers == respCall.headers        \* WriteJSON's headers arguments
errArg == respCall.errArg          \* ErrorJSON's err argument, by its text
errStatus == respCall.errStatus    \* ErrorJSON's status arguments
template == respCall.template      \* t.ErrorResponseTemplate: "nil","custom","unsupported"
writeOK == respCall.writeOK        \* w.Write succeeds
prepared == respCall.prepared      \* the Prepare calls made: who was asked, with what
wret == respCall.wret              \* the error the method returned
\* ---- UploadFiles, UploadOneFile
upc == uploadCall.upc                           \* "off","call","done"
uploaded == uploadCall.uploaded                 \* the method called: "none","UploadFiles","UploadOneFile"
parts == uploadCall.parts                       \* the file parts, in the order the loops visit them
formOK == uploadCall.formOK                     \* the request body is a well-formed multipart form
AllowedFileTypes == uploadCall.AllowedFileTypes \* t.AllowedFileTypes
MaxFileSize == uploadCall.MaxFileSize           \* t.MaxFileSize
rename == uploadCall.rename                     \* the rename arguments
ioFault == uploadCall.ioFault                   \* the file-system operation that fails, if one does
disk == uploadCall.disk                         \* the files in uploadDir
ufiles == uploadCall.ufiles                     \* the records UploadFiles returned
ufile == uploadCall.ufile                       \* the record UploadOneFile returned
uerr == uploadCall.uerr                         \* the error returned
upanic == uploadCall.upanic                     \* the call panicked

\* ---- Slugfy
spc == slugCall.spc        \* "off","call","done","again"
slugArg == slugCall.s      \* the argument s
slug == slugCall.slug      \* the slug returned
serr == slugCall.serr      \* the error returned
slug2 == slugCall.slug2    \* the slug a second call, on the slug, returned
serr2 == slugCall.serr2    \* the error that second call returned

\* ---- RandomString
rpc == randCall.rpc        \* "off","loop","done"
randLen == randCall.l      \* the argument l
res == randCall.res        \* the byte slice res
ri == randCall.i           \* the loop index
randRet == randCall.ret    \* the string returned

\* ---- concurrent UploadFiles calls
cpc == raceCall.cpc                    \* per call: "mkdir","check","write","limit","save","done"
initialMaxFileSize == raceCall.initial \* t.MaxFileSize before the calls began
sharedMaxFileSize == raceCall.shared   \* t.MaxFileSize
writers == raceCall.writers            \* the calls that have written t.MaxFileSize
overlap == raceCall.overlap            \* two calls were past the check and before the write at once
climit == raceCall.limit               \* per call: the limit it gave http.MaxBytesReader
cerr == raceCall.err                   \* per call: the error it returned
cdisk == raceCall.disk                 \* the files in the shared uploadDir

\* ---- PushJSONToRemote
ppc == pushCall.ppc            \* "off","call","done"
uri == pushCall.uri            \* the uri argument
pushData == pushCall.data      \* the data argument
clients == pushCall.clients    \* the client arguments
remote == pushCall.remote      \* what the round trip will meet: a response, or a failure
sent == pushCall.sent          \* the requests handed to a client, with the client
presp == pushCall.resp         \* the response returned
pstatus == pushCall.status     \* the status code returned
perr == pushCall.err           \* the error returned

\* ---- a sequence of calls on one shared Tools
tpc == toolsCall.tpc           \* "off","ready"
tools == toolsCall.t           \* the fields of the shared Tools t
tInitial == toolsCall.initial  \* the fields before the first call
made == toolsCall.made         \* the calls made so far
last == toolsCall.last         \* the last call: the method, whether it failed, its I/O fault

serverVars == <<shutdownTimeout, certKeyFiles, tlsConfig, signalChanSet, pc, trigger,
                ret, calls, shutdownRes, closeRes, deadline, drainStart, retTime,
                gpc, variant, listenCalls, gerr, sends, closes, serverErrChan,
                chanClosed, stop, notifyOn, ctxDone, cancelTime, inShutdown,
                inFlight, now>>
jsonVars == <<jsonCall>>
respVars == <<respCall>>
uploadVars == <<uploadCall>>
slugVars == <<slugCall>>
randVars == <<randCall>>
raceVars == <<raceCall>>
pushVars == <<pushCall>>
toolsVars == <<toolsCall>>
nonServerVars == <<jsonVars, respVars, uploadVars, slugVars, randVars, raceVars, pushVars,
                   toolsVars>>
vars == <<serverVars, jsonVars, respVars, uploadVars, slugVars, randVars, raceVars,
          pushVars, toolsVars>>

(***************************************************************************)
(* Error values.  An error is its message and the messages of the errors   *)
(* it wraps (errors.Is / errors.Unwrap reach these).                       *)
(***************************************************************************)
Err(m) == [msg |-> m, wraps |-> {}]
Nil == Err("nil")
ErrServerClosed == Err("http: Server closed")
ErrAddrInUse == Err("listen: address already in use")
ErrAccept == Err("accept: fatal error")
ErrDeadlineExceeded == Err("context deadline exceeded")
ErrListenerClose == Err("close: listener error")
ErrConnClose == Err("close: connection error")

\* errors.Is(e, target)
ErrorsIs(e, target) == e = target \/ target.msg \in e.wraps

(***************************************************************************)
(* RunServer: the decisions of the code, as operators.                     *)
(***************************************************************************)
None == Err("-")

FatalErrs == {ErrAddrInUse, ErrAccept}

TLSConfigs == {"nil", "empty", "certs", "getCert"}

\* srv.TLSConfig != nil && (len(Certificates) > 0 || GetCertificate != nil)
HasTLSMaterial(cfg) == cfg # "nil" /\ (cfg = "certs" \/ cfg = "getCert")

\* variant: any pair-or-longer argument list selects the file pair
ListenVariantAtLeastTwo(n, cfg) ==
    IF n >= 2 THEN "tlsFiles"
    ELSE IF HasTLSMaterial(cfg) THEN "tlsConfig"
    ELSE "http"

\* the if / else if / else that picks the listen-and-serve call
ListenVariant(n, cfg) ==
    IF n = 2 THEN "tlsFiles"
    ELSE IF HasTLSMaterial(cfg) THEN "tlsConfig"
    ELSE "http"

\* variant: the sentinel is reported like any other result
ShouldReportAlways(err) == TRUE

\* if !errors.Is(err, http.ErrServerClosed) { serverErrChan <- err }
ShouldReport(err) == ~ErrorsIs(err, ErrServerClosed)

\* stop := t.signalChan; if stop == nil { make; signal.Notify }
SubscribesOS(set) == ~set

\* variant: the drain reuses a context that carries no deadline
ShutdownDeadlineNone(t0, timeout) == MaxTime + 1

\* variant: the deadline is one tick late
ShutdownDeadlineLate(t0, timeout) == t0 + timeout + 1

\* context.WithTimeout(context.Background(), shutdownTimeout)
ShutdownDeadline(t0, timeout) == t0 + timeout

\* variant: the hard close runs whatever the graceful stop returned
NeedsCloseAlways(sErr) == TRUE

\* if err := srv.Shutdown(shutdownCtx); err != nil { srv.Close() ... }
NeedsClose(sErr) == sErr # Nil

\* errors.Join(err, closeErr) under fmt.Errorf("server forced to close: %w", ...)
Forced(sErr, cErr) ==
    [msg |-> "server forced to close", wraps |-> {sErr.msg, cErr.msg} \cup sErr.wraps \cup cErr.wraps]

\* variant: the close error replaces the graceful-stop error
DrainResultCloseOnly(sErr, cErr) ==
    IF sErr # Nil THEN (IF cErr # Nil THEN cErr ELSE sErr) ELSE Nil

\* the value returned on the shutdown path
DrainResult(sErr, cErr) ==
    IF sErr # Nil
    THEN (IF cErr # Nil THEN Forced(sErr, cErr) ELSE sErr)
    ELSE Nil

\* variant: the context case returns at once instead of falling through
AfterSelectCtxReturns(case) == IF case = "ctx" THEN "done" ELSE "drain"

\* both the stop case and the ctx.Done() case only log and fall out of the select
AfterSelect(case) == "drain"

\* variant: the received value is dropped
ReceivedDropped(buf) == Nil

\* err := <-serverErrChan: the buffered value, or the zero value of a closed channel
Received(buf) == IF Len(buf) > 0 THEN Head(buf) ELSE Nil

(***************************************************************************)
(* RunServer: the initial state.                                           *)
(***************************************************************************)
\* no ReadJSON call runs
JSONOff == jsonCall = [jpc |-> "off"]

\* no WriteJSON or ErrorJSON call runs
RespOff == respCall = [wpc |-> "off"]

\* no UploadFiles or UploadOneFile call runs
UploadOff == uploadCall = [upc |-> "off"]

\* no Slugfy call runs
SlugOff == slugCall = [spc |-> "off"]

\* no RandomString call runs
RandOff == randCall = [rpc |-> "off"]

\* no concurrent UploadFiles calls run
RaceOff == raceCall = [cpc |-> "off"]

\* no PushJSONToRemote call runs
PushOff == pushCall = [ppc |-> "off"]

\* no sequence of calls runs
ToolsOff == toolsCall = [tpc |-> "off"]

Init ==
    /\ shutdownTimeout \in 0..MaxTimeout
    /\ certKeyFiles \in 0..MaxCertArgs
    /\ tlsConfig \in TLSConfigs
    /\ signalChanSet \in BOOLEAN
    /\ pc = "start"
    /\ trigger = "none"
    /\ ret = None
    /\ calls = <<>>
    /\ shutdownRes = None
    /\ closeRes = None
    /\ deadline = -1
    /\ drainStart = -1
    /\ retTime = -1
    /\ gpc = "none"
    /\ variant = "none"
    /\ listenCalls = 0
    /\ gerr = None
    /\ sends = 0
    /\ closes = 0
    /\ serverErrChan = <<>>
    /\ chanClosed = FALSE
    /\ stop = 0
    /\ notifyOn = FALSE
    /\ ctxDone = FALSE
    /\ cancelTime = -1
    /\ inShutdown = FALSE
    /\ inFlight = 0
    /\ now = 0
    /\ JSONOff
    /\ RespOff
    /\ UploadOff
    /\ SlugOff
    /\ RandOff
    /\ RaceOff
    /\ PushOff
    /\ ToolsOff

inputVars == <<shutdownTimeout, certKeyFiles, tlsConfig, signalChanSet>>
mainVars == <<pc, trigger, ret, calls, shutdownRes, closeRes, deadline, drainStart, retTime>>
goVars == <<gpc, variant, listenCalls, gerr, sends, closes>>
chanVars == <<serverErrChan, chanClosed>>

(***************************************************************************)
(* RunServer: the caller's thread.                                         *)
(***************************************************************************)
\* serverErrChan := make(chan error, 1); go func() {...}()
GoStart ==
    /\ pc = "start"
    /\ pc' = "sigsetup"
    /\ gpc' = "ready"
    /\ UNCHANGED <<inputVars, trigger, ret, calls, shutdownRes, closeRes, deadline,
                   drainStart, retTime, variant, listenCalls, gerr, sends, closes,
                   chanVars, stop, notifyOn, ctxDone, cancelTime, inShutdown,
                   inFlight, now, nonServerVars>>

\* stop := t.signalChan; if stop == nil { stop = make(...); signal.Notify(stop, ...) }
SetupStop ==
    /\ pc = "sigsetup"
    /\ pc' = "wait"
    /\ notifyOn' = SubscribesOS(signalChanSet)
    /\ stop' = IF SubscribesOS(signalChanSet) THEN 0 ELSE stop
    /\ UNCHANGED <<inputVars, trigger, ret, calls, shutdownRes, closeRes, deadline,
                   drainStart, retTime, goVars, chanVars, ctxDone, cancelTime,
                   inShutdown, inFlight, now, nonServerVars>>

ServerErrReady == Len(serverErrChan) > 0 \/ chanClosed
StopReady == stop > 0
CtxReady == ctxDone

\* case err := <-serverErrChan: return err
SelectServerErr ==
    /\ pc = "wait"
    /\ ServerErrReady
    /\ ret' = Received(serverErrChan)
    /\ serverErrChan' = IF Len(serverErrChan) > 0 THEN Tail(serverErrChan) ELSE serverErrChan
    /\ trigger' = "serverErr"
    /\ pc' = "done"
    /\ retTime' = now
    /\ UNCHANGED <<inputVars, calls, shutdownRes, closeRes, deadline, drainStart,
                   goVars, chanClosed, stop, notifyOn, ctxDone, cancelTime,
                   inShutdown, inFlight, now, nonServerVars>>

\* case <-stop:
SelectStop ==
    /\ pc = "wait"
    /\ StopReady
    /\ stop' = stop - 1
    /\ trigger' = "signal"
    /\ pc' = AfterSelect("signal")
    /\ UNCHANGED <<inputVars, ret, calls, shutdownRes, closeRes, deadline, drainStart,
                   retTime, goVars, chanVars, notifyOn, ctxDone, cancelTime,
                   inShutdown, inFlight, now, nonServerVars>>

\* case <-ctx.Done():
SelectCtx ==
    /\ pc = "wait"
    /\ CtxReady
    /\ trigger' = "ctx"
    /\ pc' = AfterSelect("ctx")
    /\ UNCHANGED <<inputVars, ret, calls, shutdownRes, closeRes, deadline, drainStart,
                   retTime, goVars, chanVars, stop, notifyOn, ctxDone, cancelTime,
                   inShutdown, inFlight, now, nonServerVars>>

\* shutdownCtx, cancel := context.WithTimeout(...); srv.Shutdown(shutdownCtx) is entered:
\* the server stops listening
BeginDrain ==
    /\ pc = "drain"
    /\ deadline' = ShutdownDeadline(now, shutdownTimeout)
    /\ drainStart' = now
    /\ calls' = Append(calls, "Shutdown")
    /\ inShutdown' = TRUE
    /\ pc' = "inShutdown"
    /\ UNCHANGED <<inputVars, trigger, ret, shutdownRes, closeRes, retTime, goVars,
                   chanVars, stop, notifyOn, ctxDone, cancelTime, inFlight, now,
                   nonServerVars>>

\* srv.Shutdown returns once no connection is active, or when shutdownCtx is done
ShutdownCtxDone == now >= deadline
ShutdownResults ==
    (IF inFlight = 0 THEN {Nil, ErrListenerClose} ELSE {})
    \cup (IF inFlight > 0 /\ ShutdownCtxDone THEN {ErrDeadlineExceeded} ELSE {})
ShutdownCanReturn == ShutdownResults # {}

\* srv.Shutdown returns; on nil: log, return nil
ShutdownReturn ==
    /\ pc = "inShutdown"
    /\ \E r \in ShutdownResults :
        /\ shutdownRes' = r
        /\ IF NeedsClose(r)
           THEN /\ pc' = "close"
                /\ UNCHANGED <<ret, retTime>>
           ELSE /\ pc' = "done"
                /\ ret' = DrainResult(r, Nil)
                /\ retTime' = now
    /\ UNCHANGED <<inputVars, trigger, calls, closeRes, deadline, drainStart, goVars,
                   chanVars, stop, notifyOn, ctxDone, cancelTime, inShutdown,
                   inFlight, now, nonServerVars>>

\* closeErr := srv.Close(); return the joined error, or err
CloseReturn ==
    /\ pc = "close"
    /\ \E c \in {Nil, ErrConnClose} :
        /\ closeRes' = c
        /\ ret' = DrainResult(shutdownRes, c)
    /\ calls' = Append(calls, "Close")
    /\ inShutdown' = TRUE
    /\ inFlight' = 0
    /\ pc' = "done"
    /\ retTime' = now
    /\ UNCHANGED <<inputVars, trigger, shutdownRes, deadline, drainStart, goVars,
                   chanVars, stop, notifyOn, ctxDone, cancelTime, now, nonServerVars>>

(***************************************************************************)
(* RunServer: the serving goroutine.                                       *)
(***************************************************************************)
\* the goroutine picks and enters srv.ListenAndServeTLS / srv.ListenAndServe
GoListen ==
    /\ gpc = "ready"
    /\ variant' = ListenVariant(certKeyFiles, tlsConfig)
    /\ listenCalls' = listenCalls + 1
    /\ gpc' = "calling"
    /\ UNCHANGED <<inputVars, mainVars, gerr, sends, closes, chanVars, stop, notifyOn,
                   ctxDone, cancelTime, inShutdown, inFlight, now, nonServerVars>>

\* the listen fails (address in use, unreadable certificate): the call returns at once.
\* net.Listen runs after the shutting-down test, so this can also follow a Shutdown.
ListenFail ==
    /\ gpc = "calling"
    /\ gerr' = ErrAddrInUse
    /\ gpc' = "returned"
    /\ UNCHANGED <<inputVars, mainVars, variant, listenCalls, sends, closes, chanVars,
                   stop, notifyOn, ctxDone, cancelTime, inShutdown, inFlight, now,
                   nonServerVars>>

\* the listener is bound: the server accepts connections
ListenOK ==
    /\ gpc = "calling"
    /\ ~inShutdown
    /\ gpc' = "serving"
    /\ UNCHANGED <<inputVars, mainVars, variant, listenCalls, gerr, sends, closes,
                   chanVars, stop, notifyOn, ctxDone, cancelTime, inShutdown,
                   inFlight, now, nonServerVars>>

\* Accept fails while the server is not shutting down: Serve returns that error
ServeFail ==
    /\ gpc = "serving"
    /\ ~inShutdown
    /\ gerr' = ErrAccept
    /\ gpc' = "returned"
    /\ UNCHANGED <<inputVars, mainVars, variant, listenCalls, sends, closes, chanVars,
                   stop, notifyOn, ctxDone, cancelTime, inShutdown, inFlight, now,
                   nonServerVars>>

\* the server is shutting down: the call returns http.ErrServerClosed
ServeClosed ==
    /\ gpc \in {"calling", "serving"}
    /\ inShutdown
    /\ gerr' = ErrServerClosed
    /\ gpc' = "returned"
    /\ UNCHANGED <<inputVars, mainVars, variant, listenCalls, sends, closes, chanVars,
                   stop, notifyOn, ctxDone, cancelTime, inShutdown, inFlight, now,
                   nonServerVars>>

\* if !errors.Is(err, http.ErrServerClosed) { serverErrChan <- err }
\* (a send on a full buffer would block: the action is then not enabled)
GoReport ==
    /\ gpc = "returned"
    /\ IF ShouldReport(gerr)
       THEN /\ Len(serverErrChan) < 1
            /\ ~chanClosed
            /\ serverErrChan' = Append(serverErrChan, gerr)
            /\ sends' = sends + 1
       ELSE UNCHANGED <<serverErrChan, sends>>
    /\ gpc' = "closing"
    /\ UNCHANGED <<inputVars, mainVars, variant, listenCalls, gerr, closes, chanClosed,
                   stop, notifyOn, ctxDone, cancelTime, inShutdown, inFlight, now,
                   nonServerVars>>

\* close(serverErrChan)
GoClose ==
    /\ gpc = "closing"
    /\ chanClosed' = TRUE
    /\ closes' = closes + 1
    /\ gpc' = "exited"
    /\ UNCHANGED <<inputVars, mainVars, variant, listenCalls, gerr, sends,
                   serverErrChan, stop, notifyOn, ctxDone, cancelTime, inShutdown,
                   inFlight, now, nonServerVars>>

(***************************************************************************)
(* RunServer: the environment.                                             *)
(***************************************************************************)
\* the caller cancels ctx
Cancel ==
    /\ pc # "done"
    /\ ~ctxDone
    /\ ctxDone' = TRUE
    /\ cancelTime' = now
    /\ UNCHANGED <<inputVars, mainVars, goVars, chanVars, stop, notifyOn, inShutdown,
                   inFlight, now, nonServerVars>>

\* a value is delivered on the signal channel: by the holder of the injected
\* t.signalChan, or by the runtime once signal.Notify has subscribed stop
Signal ==
    /\ pc # "done"
    /\ signalChanSet \/ notifyOn
    /\ stop < 1
    /\ stop' = stop + 1
    /\ UNCHANGED <<inputVars, mainVars, goVars, chanVars, notifyOn, ctxDone,
                   cancelTime, inShutdown, inFlight, now, nonServerVars>>

\* a request reaches the serving server
RequestArrive ==
    /\ gpc = "serving"
    /\ ~inShutdown
    /\ inFlight < MaxInFlight
    /\ inFlight' = inFlight + 1
    /\ UNCHANGED <<inputVars, mainVars, goVars, chanVars, stop, notifyOn, ctxDone,
                   cancelTime, inShutdown, now, nonServerVars>>

\* an in-flight request finishes
RequestDone ==
    /\ inFlight > 0
    /\ inFlight' = inFlight - 1
    /\ UNCHANGED <<inputVars, mainVars, goVars, chanVars, stop, notifyOn, ctxDone,
                   cancelTime, inShutdown, now, nonServerVars>>

\* another holder of srv closes it while RunServer waits
ExternalClose ==
    /\ pc \in {"sigsetup", "wait"}
    /\ ~inShutdown
    /\ inShutdown' = TRUE
    /\ inFlight' = 0
    /\ UNCHANGED <<inputVars, mainVars, goVars, chanVars, stop, notifyOn, ctxDone,
                   cancelTime, now, nonServerVars>>

\* the caller's thread can take a step now
MainRunnable ==
    \/ pc \in {"start", "sigsetup", "drain", "close"}
    \/ pc = "wait" /\ (ServerErrReady \/ StopReady \/ CtxReady)
    \/ pc = "inShutdown" /\ ShutdownCanReturn

\* the clock advances while the caller's thread is blocked (in the select or in
\* srv.Shutdown); a runnable thread runs before the next tick
Tick ==
    /\ pc # "done"
    /\ ~MainRunnable
    /\ now < MaxTime
    /\ pc = "wait" => now < WaitHorizon
    /\ now' = now + 1
    /\ UNCHANGED <<inputVars, mainVars, goVars, chanVars, stop, notifyOn, ctxDone,
                   cancelTime, inShutdown, inFlight, nonServerVars>>

MainStep ==
    \/ GoStart
    \/ SetupStop
    \/ SelectServerErr
    \/ SelectStop
    \/ SelectCtx
    \/ BeginDrain
    \/ ShutdownReturn
    \/ CloseReturn

Next ==
    \/ GoStart
    \/ SetupStop
    \/ SelectServerErr
    \/ SelectStop
    \/ SelectCtx
    \/ BeginDrain
    \/ ShutdownReturn
    \/ CloseReturn
    \/ GoListen
    \/ ListenFail
    \/ ListenOK
    \/ ServeFail
    \/ ServeClosed
    \/ GoReport
    \/ GoClose
    \/ Cancel
    \/ Signal
    \/ RequestArrive
    \/ RequestDone
    \/ ExternalClose
    \/ Tick

Spec == Init /\ [][Next]_vars

\* the runtime schedules a runnable thread and the clock advances
FairSpec == Spec /\ WF_vars(MainStep) /\ WF_vars(Tick)

\* the runtime schedules the serving goroutine once its call has returned
FairGoSpec == Spec /\ WF_vars(GoReport \/ GoClose)

TypeOK ==
    /\ pc \in {"start", "sigsetup", "wait", "drain", "inShutdown", "close", "done"}
    /\ gpc \in {"none", "ready", "calling", "serving", "returned", "closing", "exited"}
    /\ trigger \in {"none", "serverErr", "signal", "ctx"}
    /\ Len(serverErrChan) <= 1
    /\ stop \in 0..1
    /\ inFlight \in 0..MaxInFlight
    /\ now \in 0..MaxTime

(***************************************************************************)
(* RunServer: the properties.                                              *)
(***************************************************************************)
Drained == pc = "done" /\ trigger \in {"signal", "ctx"}
FatalOccurred == gerr \in FatalErrs

\* C1, as stated: if ctx is canceled while RunServer serves and no fatal server
\* error has occurred, RunServer returns nil, within shutdownTimeout of the
\* cancellation.
C1_Original ==
    (pc = "done" /\ trigger = "ctx" /\ ~FatalOccurred)
        => (ret = Nil /\ retTime - cancelTime <= shutdownTimeout)

\* C1, amended: if ctx is canceled while RunServer serves and no fatal server
\* error has occurred, RunServer returns within shutdownTimeout of the
\* cancellation, and a run that left the wait through the context case returns
\* nil exactly when the graceful stop returned nil.
C1_CancelReturnsInTime ==
    (pc = "done" /\ cancelTime >= 0 /\ ~FatalOccurred)
        => /\ retTime - cancelTime <= shutdownTimeout
           /\ trigger = "ctx" => (ret = Nil <=> shutdownRes = Nil)

C1_Witness ==
    /\ pc = "done"
    /\ trigger = "ctx"
    /\ ~FatalOccurred
    /\ ret = Nil
    /\ retTime > cancelTime

\* C2, as stated: once the listen-and-serve call has failed with an error other
\* than the sentinel, RunServer's wait ends only by returning a non-nil error with
\* no Shutdown and no Close, whatever cancellation or signal is interleaved.
C2_Original ==
    [][(pc = "wait" /\ FatalOccurred)
        => (pc' = "wait" \/ (pc' = "done" /\ ret' # Nil /\ calls' = <<>>))]_vars

\* C2, amended: when the listen-and-serve call has failed with an error other
\* than the sentinel and the wait takes the server-error case, RunServer returns
\* exactly that non-nil error and invokes neither Shutdown nor Close; and the wait
\* takes that case whenever the error is on the channel and neither a
\* cancellation nor a signal is pending.
C2_FatalErrorObserved ==
    /\ []((trigger = "serverErr" /\ FatalOccurred)
            => (pc = "done" /\ ret = gerr /\ ret # Nil /\ calls = <<>>))
    /\ [][(pc = "wait" /\ Len(serverErrChan) > 0 /\ ~ctxDone /\ stop = 0 /\ pc' # "wait")
            => (pc' = "done" /\ ret' = Head(serverErrChan) /\ ret' \in FatalErrs
                /\ calls' = <<>>)]_vars

C2_Witness ==
    /\ pc = "done"
    /\ trigger = "serverErr"
    /\ ret = ErrAddrInUse
    /\ calls = <<>>

\* C3: on the shutdown path the result is decided by the two stop calls:
\* Shutdown nil -> nil and no Close; Shutdown error and Close nil -> exactly the
\* Shutdown error; both fail -> one error from which both can be recovered.
C3_DrainResult ==
    Drained =>
        /\ shutdownRes = Nil => (ret = Nil /\ calls = <<"Shutdown">> /\ closeRes = None)
        /\ (shutdownRes # Nil /\ closeRes = Nil) => ret = shutdownRes
        /\ (shutdownRes # Nil /\ closeRes # Nil) =>
              /\ ErrorsIs(ret, shutdownRes)
              /\ ErrorsIs(ret, closeRes)
              /\ ret # shutdownRes
              /\ ret # closeRes

C3_Witness ==
    /\ Drained
    /\ shutdownRes = ErrDeadlineExceeded
    /\ closeRes = ErrConnClose
    /\ ErrorsIs(ret, ErrDeadlineExceeded)
    /\ ErrorsIs(ret, ErrConnClose)

CallCount(name) == Cardinality({i \in DOMAIN calls : calls[i] = name})

\* C4: within one call Shutdown is invoked at most once, Close at most once and
\* only after Shutdown returned an error, and a call that returns through the
\* server-error case invokes neither and never reports a drain.
C4_AtMostOneDrain ==
    /\ CallCount("Shutdown") <= 1
    /\ CallCount("Close") <= 1
    /\ \A i \in DOMAIN calls :
          calls[i] = "Close" =>
              (i = 2 /\ calls[1] = "Shutdown" /\ shutdownRes \notin {None, Nil})
    /\ trigger = "serverErr" => (calls = <<>> /\ shutdownRes = None /\ closeRes = None)
    /\ calls # <<>> => (trigger \in {"signal", "ctx"} /\ ret \notin FatalErrs)

C4_Witness ==
    /\ pc = "done"
    /\ calls = <<"Shutdown", "Close">>
    /\ shutdownRes # Nil

\* C5: a value on the signal channel (the injected one when set, else the OS
\* subscription) and cancellation of ctx are equivalent triggers: after either,
\* the calls, their order, the fresh timeout and the mapping of the results to the
\* returned value are the same function of the stop calls' results, nil when the
\* graceful stop succeeds.
C5_EquivalentTriggers ==
    /\ trigger \in {"signal", "ctx"} => pc \in {"drain", "inShutdown", "close", "done"}
    /\ pc \in {"inShutdown", "close"} =>
          (trigger \in {"signal", "ctx"} /\ deadline = drainStart + shutdownTimeout)
    /\ Drained =>
          /\ calls = (IF shutdownRes = Nil THEN <<"Shutdown">> ELSE <<"Shutdown", "Close">>)
          /\ deadline = drainStart + shutdownTimeout
          /\ ret = (IF shutdownRes = Nil THEN Nil
                    ELSE IF closeRes = Nil THEN shutdownRes
                    ELSE Forced(shutdownRes, closeRes))
    /\ pc \notin {"start", "sigsetup"} => (notifyOn <=> ~signalChanSet)

C5_Witness ==
    /\ Drained
    /\ trigger = "signal"
    /\ ~signalChanSet
    /\ ret = Nil

\* C6: once RunServer has observed a signal or a cancellation it eventually
\* returns even if in-flight requests never finish: the graceful stop is bounded
\* by a fresh timeout of shutdownTimeout from the beginning of the drain, and a
\* run whose timeout expired has hard-closed the server.
C6_DrainTerminates ==
    /\ (trigger \in {"signal", "ctx"}) ~> (pc = "done")
    /\ [](pc \in {"inShutdown", "close"} =>
            (deadline = drainStart + shutdownTimeout /\ now <= deadline))
    /\ []((Drained /\ shutdownRes = ErrDeadlineExceeded) =>
            (calls = <<"Shutdown", "Close">> /\ retTime = drainStart + shutdownTimeout))

C6_Witness ==
    /\ Drained
    /\ shutdownRes = ErrDeadlineExceeded
    /\ shutdownTimeout > 0
    /\ retTime = drainStart + shutdownTimeout
    /\ ~ctxDone

\* C7: exactly one listener variant is started per call: the file pair when
\* exactly two certKeyFiles are given (whatever srv.TLSConfig holds), else the
\* embedded configuration when it is non-nil with a certificate or a
\* GetCertificate callback, else plain HTTP; a list of any other length counts as
\* no pair.
C7_ListenVariant ==
    /\ gpc \in {"none", "ready"} => (listenCalls = 0 /\ variant = "none")
    /\ gpc \notin {"none", "ready"} =>
          /\ listenCalls = 1
          /\ certKeyFiles = 2 => variant = "tlsFiles"
          /\ (certKeyFiles # 2 /\ tlsConfig \in {"certs", "getCert"}) => variant = "tlsConfig"
          /\ (certKeyFiles # 2 /\ tlsConfig \in {"nil", "empty"}) => variant = "http"

C7_Witness ==
    /\ gpc = "serving"
    /\ certKeyFiles = 3
    /\ tlsConfig = "getCert"
    /\ variant = "tlsConfig"

(***************************************************************************)
(* ReadJSON.                                                               *)
(*                                                                         *)
(* A request body is a sequence of tokens, each standing for one byte of   *)
(* the size limit:                                                         *)
(*   "{" "}" ","  the structural characters of an object                   *)
(*   " "          whitespace                                               *)
(*   "a"          a member the target declares, with a value of its type   *)
(*                ("name":"Jack")                                          *)
(*   "t"          the declared member "age" with a value of another type   *)
(*                ("age":"thirty")                                         *)
(*   "u"          the member "height", which the target does not declare   *)
(* Objects do not nest.                                                    *)
(* The target of the first Decode is a struct declaring "a" and "t"'s      *)
(* keys; the target of the second Decode is struct{}.                      *)
(***************************************************************************)
Tokens == {"{", "}", ",", " ", "a", "t", "u"}
Members == {"a", "t", "u"}

Bodies == UNION {[1..n -> Tokens] : n \in 0..MaxBody}

\* the key of a member token
FieldName(c) == IF c = "t" THEN "age" ELSE IF c = "u" THEN "height" ELSE "name"

\* maxBytes := 1024 * 1024
DefaultMaxJSONSize == 1048576

\* a decoder or reader error: its kind, the field or text it names, its number
JErr(kind, field, n) == [kind |-> kind, field |-> field, n |-> n]
JNil == JErr("nil", "", 0)
JNone == JErr("-", "", 0)
EOF == JErr("EOF", "", 0)
\* a read of r.Body that fails for a reason of the connection
ErrConnReset == JErr("read: connection reset by peer", "", 0)
\* the ways r.Body ends
BodyEnds == {EOF, ErrConnReset}

\* maxBytes := 1024 * 1024; if t.MaxJSONSize > 0 { maxBytes = t.MaxJSONSize }
MaxBytesOf(size) == IF size > 0 THEN size ELSE DefaultMaxJSONSize

\* variant: the flag is read the wrong way round
DisallowsUnknownInverted(allow) == allow

\* if !t.AllowUnknownFields { dec.DisallowUnknownFields() }
DisallowsUnknown(allow) == ~allow

\* http.MaxBytesReader(w, r.Body, maxBytes) over a body b that ends with end: the
\* bytes it hands on, and the error that ends the stream
MaxBytesReader(b, end, maxBytes) ==
    [buf |-> SubSeq(b, 1, IF Len(b) <= maxBytes THEN Len(b) ELSE maxBytes),
     term |-> IF Len(b) > maxBytes
              THEN JErr("http: request body too large", "", maxBytes)
              ELSE end]

\* the decoder's scanner over buf from position i: the end of an object, a syntax
\* error, or the end of the buffered bytes.  A member outside an object begins
\* with its key, a string: a complete top-level value that is not an object.
RECURSIVE Scan(_, _, _)
Scan(buf, i, st) ==
    IF i > Len(buf) THEN [res |-> "more", pos |-> i]
    ELSE LET c == buf[i]
             bad == [res |-> "syntax", pos |-> i]
         IN  IF c = " " THEN Scan(buf, i + 1, st)
             ELSE CASE st = "begin" ->
                         IF c = "{" THEN Scan(buf, i + 1, "objStart")
                         ELSE IF c \in Members THEN [res |-> "scalar", pos |-> i]
                         ELSE bad
                    [] st = "objStart" ->
                         IF c = "}" THEN [res |-> "value", pos |-> i]
                         ELSE IF c \in Members THEN Scan(buf, i + 1, "afterMember")
                         ELSE bad
                    [] st = "afterMember" ->
                         IF c = "}" THEN [res |-> "value", pos |-> i]
                         ELSE IF c = "," THEN Scan(buf, i + 1, "afterComma")
                         ELSE bad
                    [] OTHER ->
                         IF c \in Members THEN Scan(buf, i + 1, "afterMember") ELSE bad

\* d.unmarshal of the members in order: the first saved error is returned.
\* declared: the target declares the keys of "a" and "t" (false for struct{}).
RECURSIVE Unmarshal(_, _, _)
Unmarshal(ms, declared, disallow) ==
    IF ms = <<>> THEN JNil
    ELSE LET c == Head(ms) IN
         IF declared /\ c = "t"
         THEN JErr("UnmarshalTypeError", FieldName(c), 0)
         ELSE IF (c = "u" \/ ~declared) /\ disallow
         THEN JErr("json: unknown field", FieldName(c), 0)
         ELSE Unmarshal(Tail(ms), declared, disallow)

IsMember(c) == c \in Members

\* dec.Decode(v) on the stream from position from: the error and the position
\* after the value.  ptr: v is a non-nil pointer; d.unmarshal turns any other v
\* down before it looks at the value.
Decode(stream, from, ptr, declared, disallow) ==
    LET buf == stream.buf
        s == Scan(buf, from, "begin")
    IN  CASE s.res = "syntax" ->
                [err |-> JErr("SyntaxError", "", s.pos), next |-> from]
          [] s.res = "more" ->
                [err |-> IF stream.term = EOF
                         THEN IF \E j \in from..Len(buf) : buf[j] # " "
                              THEN JErr("unexpected EOF", "", 0)
                              ELSE EOF
                         ELSE stream.term,
                 next |-> from]
          [] ~ptr ->
                [err |-> JErr("InvalidUnmarshalError", "", 0), next |-> s.pos + 1]
          [] s.res = "scalar" ->
                [err |-> JErr("UnmarshalTypeError", "", 0), next |-> s.pos + 1]
          [] OTHER ->
                [err |-> Unmarshal(SelectSeq(SubSeq(buf, from, s.pos), IsMember),
                                   declared, disallow),
                 next |-> s.pos + 1]

\* variant: the test for io.EOF also takes io.ErrUnexpectedEOF
ClassifyAnyEOF(err, maxBytes) ==
    CASE err.kind = "SyntaxError" -> JErr("body contains badly-formed JSON (at character)", "", err.n)
      [] err.kind = "UnmarshalTypeError" -> JErr("body contains incorrect JSON type for field", err.field, 0)
      [] err.kind \in {"EOF", "unexpected EOF"} -> JErr("body must not be empty", "", 0)
      [] err.kind = "json: unknown field" -> JErr("body contains unknown key", err.field, 0)
      [] err.kind = "http: request body too large" -> JErr("body must no be larger than bytes", "", maxBytes)
      [] err.kind = "InvalidUnmarshalError" -> JErr("error unmarshaling JSON", err.kind, 0)
      [] OTHER -> err

\* the switch on the error of the first Decode
Classify(err, maxBytes) ==
    CASE err.kind = "SyntaxError" -> JErr("body contains badly-formed JSON (at character)", "", err.n)
      [] err.kind = "unexpected EOF" -> JErr("body contains badly-formed JSON", "", 0)
      [] err.kind = "UnmarshalTypeError" -> JErr("body contains incorrect JSON type for field", err.field, 0)
      [] err.kind = "EOF" -> JErr("body must not be empty", "", 0)
      [] err.kind = "json: unknown field" -> JErr("body contains unknown key", err.field, 0)
      [] err.kind = "http: request body too large" -> JErr("body must no be larger than bytes", "", maxBytes)
      [] err.kind = "InvalidUnmarshalError" -> JErr("error unmarshaling JSON", err.kind, 0)
      [] OTHER -> err

\* variant: the check for a second value is left out
OnlyOneValueUnchecked(err) == TRUE

\* err = dec.Decode(&struct{}{}); if err != io.EOF { ... only one JSON value }
OnlyOneValue(err) == err = EOF

ErrOnlyOne == JErr("body must contain only one JSON value", "", 0)

\* err := dec.Decode(data)
FirstDecode(b, end, size, allow, ptr) ==
    Decode(MaxBytesReader(b, end, MaxBytesOf(size)), 1, ptr, TRUE, DisallowsUnknown(allow))

\* Tools.ReadJSON
ReadJSON(b, end, size, allow, ptr) ==
    LET maxBytes == MaxBytesOf(size)
        stream == MaxBytesReader(b, end, maxBytes)
        disallow == DisallowsUnknown(allow)
        first == FirstDecode(b, end, size, allow, ptr)
    IN  IF first.err # JNil THEN Classify(first.err, maxBytes)
        ELSE IF ~OnlyOneValue(Decode(stream, first.next, TRUE, FALSE, disallow).err)
        THEN ErrOnlyOne
        ELSE JNil

\* the state before a ReadJSON call; no RunServer call runs
ServerOff ==
    /\ shutdownTimeout = 0
    /\ certKeyFiles = 0
    /\ tlsConfig = "nil"
    /\ signalChanSet = FALSE
    /\ pc = "off"
    /\ trigger = "none"
    /\ ret = None
    /\ calls = <<>>
    /\ shutdownRes = None
    /\ closeRes = None
    /\ deadline = -1
    /\ drainStart = -1
    /\ retTime = -1
    /\ gpc = "none"
    /\ variant = "none"
    /\ listenCalls = 0
    /\ gerr = None
    /\ sends = 0
    /\ closes = 0
    /\ serverErrChan = <<>>
    /\ chanClosed = FALSE
    /\ stop = 0
    /\ notifyOn = FALSE
    /\ ctxDone = FALSE
    /\ cancelTime = -1
    /\ inShutdown = FALSE
    /\ inFlight = 0
    /\ now = 0

InitJSON ==
    /\ ServerOff
    /\ RespOff
    /\ UploadOff
    /\ SlugOff
    /\ RandOff
    /\ RaceOff
    /\ PushOff
    /\ ToolsOff
    /\ jsonCall \in [jpc : {"call"}, body : Bodies, MaxJSONSize : -1..MaxBody,
                     AllowUnknownFields : BOOLEAN, bodyEnd : BodyEnds,
                     dataIsPointer : BOOLEAN, jraw : {JNone}, jerr : {JNone}]

\* one call of ReadJSON
ReadJSONCall ==
    /\ jpc = "call"
    /\ jsonCall' = [jsonCall EXCEPT
          !.jraw = FirstDecode(body, bodyEnd, MaxJSONSize, AllowUnknownFields, dataIsPointer).err,
          !.jerr = ReadJSON(body, bodyEnd, MaxJSONSize, AllowUnknownFields, dataIsPointer),
          !.jpc = "done"]
    /\ UNCHANGED <<serverVars, respVars, uploadVars,
                 slugVars, randVars, raceVars, pushVars, toolsVars>>

NextJSON == ReadJSONCall

SpecJSON == InitJSON /\ [][NextJSON]_vars

(***************************************************************************)
(* ReadJSON: the properties.                                               *)
(***************************************************************************)
\* the limit the documentation gives: the configured size, or 1 MiB when it is
\* zero or negative
Limit == IF MaxJSONSize > 0 THEN MaxJSONSize ELSE DefaultMaxJSONSize

ErrTooLarge(n) == JErr("body must no be larger than bytes", "", n)

AllSpace(s) == \A i \in DOMAIN s : s[i] = " "
NoSpace(c) == c # " "

\* s is one object: braces around members separated by single commas
IsObject(s) ==
    /\ Len(s) >= 2
    /\ s[1] = "{"
    /\ s[Len(s)] = "}"
    /\ LET in == SelectSeq(SubSeq(s, 2, Len(s) - 1), NoSpace)
       IN  \/ in = <<>>
           \/ /\ Len(in) % 2 = 1
              /\ \A k \in DOMAIN in :
                    IF k % 2 = 1 THEN in[k] \in Members ELSE in[k] = ","

\* the members of s fit the target under the configuration
MembersFit(s) ==
    \A k \in DOMAIN s : s[k] # "t" /\ (s[k] = "u" => AllowUnknownFields)

\* the part of the body within the limit
Seen == SubSeq(body, 1, IF Len(body) <= Limit THEN Len(body) ELSE Limit)

\* Seen[i..j] is the first JSON value of the body, and it decodes without error
FirstValueAt(i, j) ==
    /\ AllSpace(SubSeq(Seen, 1, i - 1))
    /\ IsObject(SubSeq(Seen, i, j))
    /\ MembersFit(SubSeq(Seen, i, j))

\* s is whitespace around one object whose members fit the target
OneFittingValue(s) ==
    \E i, j \in DOMAIN s :
        /\ AllSpace(SubSeq(s, 1, i - 1))
        /\ IsObject(SubSeq(s, i, j))
        /\ MembersFit(SubSeq(s, i, j))
        /\ AllSpace(SubSeq(s, j + 1, Len(s)))

\* the part of the body within the limit is all of, or the beginning of, one
\* JSON value that fits the target: nothing but its size is wrong with the body
SeenIsSound ==
    \E rest \in {<<>>, <<"}">>, <<"a", "}">>, <<"{", "}">>} : OneFittingValue(Seen \o rest)

\* C8, as stated (for a pointer target and a body that ends with io.EOF): the
\* limit is exact: a body of at most Limit bytes is never
\* rejected for its size, and every body longer than Limit bytes fails with the
\* body-too-large error carrying Limit.  The second half is taken here only for
\* the bodies with which nothing else is wrong, each of them a case of C8.
C8_Original ==
    (jpc = "done" /\ dataIsPointer /\ bodyEnd = EOF) =>
        /\ Len(body) <= Limit => jerr.kind # ErrTooLarge(Limit).kind
        /\ (Len(body) > Limit /\ SeenIsSound) => jerr = ErrTooLarge(Limit)

\* C9: for a body that is one object within the limit, ends with io.EOF and is
\* decoded into a pointer whose type the other members fit, an undeclared member makes ReadJSON fail with the unknown-key
\* error naming that member when AllowUnknownFields is false, and the body
\* decodes with no error when it is true.
C9_UnknownFields ==
    (/\ jpc = "done"
     /\ dataIsPointer
     /\ bodyEnd = EOF
     /\ Len(body) <= Limit
     /\ \E i, j \in DOMAIN body :
           /\ AllSpace(SubSeq(body, 1, i - 1))
           /\ IsObject(SubSeq(body, i, j))
           /\ AllSpace(SubSeq(body, j + 1, Len(body)))
     /\ \E k \in DOMAIN body : body[k] = "u"
     /\ \A k \in DOMAIN body : body[k] # "t")
        => IF AllowUnknownFields
           THEN jerr = JNil
           ELSE jerr = JErr("body contains unknown key", "height", 0)

C9_Witness ==
    /\ jpc = "done"
    /\ dataIsPointer
    /\ bodyEnd = EOF
    /\ body = <<"{", "u", "}", " ">>
    /\ ~AllowUnknownFields
    /\ jerr = JErr("body contains unknown key", "height", 0)

\* C10: ReadJSON (given a pointer) returns nil exactly when the first JSON value decoded without
\* error and only whitespace follows it up to a clean end of the stream; a first
\* value that decoded followed by anything else fails with 'body must contain
\* only one JSON value'.
C10_SingleValue ==
    (jpc = "done" /\ dataIsPointer) =>
        /\ jerr = JNil <=>
              /\ Len(body) <= Limit
              /\ bodyEnd = EOF
              /\ \E i, j \in DOMAIN body :
                    /\ FirstValueAt(i, j)
                    /\ AllSpace(SubSeq(body, j + 1, Len(body)))
        /\ \A i, j \in DOMAIN Seen :
              (/\ FirstValueAt(i, j)
               /\ ~AllSpace(SubSeq(Seen, j + 1, Len(Seen))))
                  => jerr = ErrOnlyOne

C10_Witness ==
    /\ jpc = "done"
    /\ dataIsPointer
    /\ bodyEnd = EOF
    /\ body = <<"{", "}", "{", "}">>
    /\ jerr = ErrOnlyOne

\* the classes of decode fault, and the message(s) of each
FaultClasses == {"badly-formed", "incorrect type", "empty", "unknown key", "too large",
                 "invalid target", "multi-value"}

ClassMessages(c) ==
    CASE c = "badly-formed" -> {"body contains badly-formed JSON (at character)",
                                "body contains badly-formed JSON"}
      [] c = "incorrect type" -> {"body contains incorrect JSON type for field"}
      [] c = "empty" -> {"body must not be empty"}
      [] c = "unknown key" -> {"body contains unknown key"}
      [] c = "too large" -> {"body must no be larger than bytes"}
      [] c = "invalid target" -> {"error unmarshaling JSON"}
      [] c = "multi-value" -> {"body must contain only one JSON value"}

\* the class of a fault of the first decode, as C11 lists them
ListedClass(raw) ==
    CASE raw.kind \in {"SyntaxError", "unexpected EOF"} -> "badly-formed"
      [] raw.kind = "UnmarshalTypeError" -> "incorrect type"
      [] raw.kind = "EOF" -> "empty"
      [] raw.kind = "json: unknown field" -> "unknown key"
      [] raw.kind = "http: request body too large" -> "too large"
      [] OTHER -> "other"

\* the returned error is the message of class c for the fault raw
ReportsClass(c, raw) ==
    /\ jerr.kind \in ClassMessages(c)
    /\ c \in {"incorrect type", "unknown key"} => jerr.field = raw.field
    /\ c = "too large" => jerr.n = Limit
    /\ c = "invalid target" => jerr.field = raw.kind

MessagesDistinct ==
    \A c, d \in FaultClasses : c # d => ClassMessages(c) \cap ClassMessages(d) = {}

\* C11, as stated: when the first decode fails ReadJSON reports the one class
\* of the fault: syntax error or unexpected end of input -> badly-formed; type
\* mismatch -> incorrect type for the named field; EOF before any value -> body
\* must not be empty; unknown field -> unknown key; size limit -> too large;
\* any other fault is returned as it is.  The messages of the classes and of the
\* multi-value error are pairwise distinct.
C11_Original ==
    /\ MessagesDistinct
    /\ (jpc = "done" /\ jraw # JNil) =>
          IF ListedClass(jraw) = "other"
          THEN jerr = jraw
          ELSE ReportsClass(ListedClass(jraw), jraw)

\* C11, amended: as stated, with one more class before the pass-through: a
\* target that is not a non-nil pointer (json.InvalidUnmarshalError) is reported
\* as a new error 'error unmarshaling JSON: ' followed by the fault's text; only
\* the faults of none of the six classes are returned as they are.  When the
\* first decode succeeds the result is nil or the multi-value error.
C11_Classification ==
    /\ MessagesDistinct
    /\ (jpc = "done" /\ jraw # JNil) =>
          LET c == IF jraw.kind = "InvalidUnmarshalError" THEN "invalid target"
                   ELSE ListedClass(jraw)
          IN  IF c = "other"
              THEN jerr = jraw /\ \A d \in FaultClasses : jerr.kind \notin ClassMessages(d)
              ELSE ReportsClass(c, jraw)
    /\ (jpc = "done" /\ jraw = JNil) => jerr \in {JNil, ErrOnlyOne}

C11_Witness ==
    /\ jpc = "done"
    /\ ~dataIsPointer
    /\ body = <<"{", "a", "}">>
    /\ jraw = JErr("InvalidUnmarshalError", "", 0)
    /\ jerr = JErr("error unmarshaling JSON", "InvalidUnmarshalError", 0)

(***************************************************************************)
(* WriteJSON and ErrorJSON.                                                *)
(*                                                                         *)
(* The response writer is its header map, the status lines it has sent     *)
(* (each with the headers as they were at that moment), the log of the     *)
(* WriteHeader and Write calls made on it, and the bodies written.  A      *)
(* header map gives each key its value, Absent for a key it does not hold. *)
(***************************************************************************)
\* longest list of optional (variadic) arguments a call is given
MaxVariadic == 2

\* http.StatusBadRequest
StatusBadRequest == 400
\* http.StatusOK, http.StatusServiceUnavailable
StatusCodes == {200, 503}

HeaderKeys == {"Content-Type", "Foo"}
Absent == ""
NoHeaders == [k \in HeaderKeys |-> Absent]
\* the header maps a caller passes
CallerHeaders ==
    {h \in [HeaderKeys -> {Absent, "text/plain", "bar"}] :
        /\ h["Content-Type"] \in {Absent, "text/plain"}
        /\ h["Foo"] \in {Absent, "bar"}}
\* the header maps of a response no status line of which is written yet
FreshHeaders == {NoHeaders, [NoHeaders EXCEPT !["Foo"] = "old"]}

WNil == "nil"
WNone == "-"
ErrUnsupportedType == "json: unsupported type: chan int"
ErrWrite == "write: broken pipe"

\* the Data of a JSONResponse that has none
NoData == -1
\* a value json.Marshal encodes, and one it cannot
JSONResponse(error, message, d) ==
    [type |-> "JSONResponse", error |-> error, message |-> message, data |-> d]
ChanValue == [type |-> "chan", error |-> FALSE, message |-> "", data |-> NoData]
Values == {JSONResponse(FALSE, "foo", NoData), ChanValue}

ErrTexts == {"service unavailable", "bad request"}

\* variant: a value that cannot be encoded is written as null
MarshalLenient(v) ==
    IF v.type = "chan"
    THEN [out |-> [v EXCEPT !.type = "json:null"], err |-> WNil]
    ELSE [out |-> [v EXCEPT !.type = "json:" \o v.type], err |-> WNil]

\* json.Marshal(data): the encoding, or the error
Marshal(v) ==
    IF v.type = "chan"
    THEN [out |-> [v EXCEPT !.type = "-"], err |-> ErrUnsupportedType]
    ELSE [out |-> [v EXCEPT !.type = "json:" \o v.type], err |-> WNil]

\* maps.Copy(dst, src)
MapsCopy(dst, src) == [k \in HeaderKeys |-> IF src[k] # Absent THEN src[k] ELSE dst[k]]

\* variant: the optional headers are not merged
MergeHeadersNone(h, hs) == h

\* if len(headers) > 0 { maps.Copy(w.Header(), headers[0]) }
MergeHeaders(h, hs) == IF Len(hs) > 0 THEN MapsCopy(h, hs[1]) ELSE h

\* w.Header().Set(key, value)
HeaderSet(h, key, value) == [h EXCEPT ![key] = value]

\* w.WriteHeader(code): the first call sends the status line with the headers as
\* they are; a later call is superfluous and sends nothing
WriteHeader(rw, code) ==
    [rw EXCEPT !.log = Append(@, [ev |-> "WriteHeader", code |-> code]),
               !.lines = IF @ = <<>> THEN <<[code |-> code, header |-> rw.header]>> ELSE @]

\* w.Write(out): sends the status line 200 first when none is sent yet
Write(rw, out, ok) ==
    LET rw1 == IF rw.lines = <<>>
               THEN [rw EXCEPT !.lines = <<[code |-> 200, header |-> rw.header]>>]
               ELSE rw
    IN  [w |-> [rw1 EXCEPT !.log = Append(@, [ev |-> "Write", code |-> 0]),
                           !.body = IF ok THEN Append(@, out) ELSE @],
         err |-> IF ok THEN WNil ELSE ErrWrite]

\* Tools.WriteJSON
WriteJSON(rw, st, v, hs, ok) ==
    LET m == Marshal(v) IN
    IF m.err # WNil THEN [w |-> rw, err |-> m.err]
    ELSE LET rw1 == [rw EXCEPT !.header =
                        HeaderSet(MergeHeaders(rw.header, hs), "Content-Type", "application/json")]
             rw2 == WriteHeader(rw1, st)
         IN  Write(rw2, m.out, ok)

\* variant: the optional status is not read
StatusCodeDefault(st) == StatusBadRequest

\* statusCode := http.StatusBadRequest; if len(status) > 0 { statusCode = status[0] }
StatusCodeOf(st) == IF Len(st) > 0 THEN st[1] ELSE StatusBadRequest

\* JSONResponse.Prepare
JSONResponsePrepare(text, st) == JSONResponse(TRUE, text, st)

\* the status ErrorJSON hands to the built-in envelope: JSONResponse{}.Prepare(err, 0)
BuiltInStatus(statusCode) == 0

\* t.ErrorResponseTemplate.Prepare(err, statusCode), for a template that answers
\* with a value of its own, and for one that answers with a value json.Marshal
\* cannot encode
TemplatePrepare(tpl, text, st) ==
    IF tpl = "custom"
    THEN [type |-> "custom", error |-> TRUE, message |-> text, data |-> st]
    ELSE ChanValue

\* Tools.ErrorJSON
ErrorJSON(rw, text, st, tpl, ok) ==
    LET statusCode == StatusCodeOf(st)
        rw1 == WriteHeader([rw EXCEPT !.header = HeaderSet(@, "Content-Type", "application/json")],
                           statusCode)
        viaTemplate == tpl # "nil"
        arg == IF viaTemplate THEN statusCode ELSE BuiltInStatus(statusCode)
        payload == IF viaTemplate
                   THEN TemplatePrepare(tpl, text, arg)
                   ELSE JSONResponsePrepare(text, arg)
        r == WriteJSON(rw1, statusCode, payload, <<>>, ok)
    IN  [w |-> r.w, err |-> r.err,
         prepared |-> <<[by |-> IF viaTemplate THEN "template" ELSE "built-in",
                         text |-> text, status |-> arg]>>]

SeqsUpTo(S, n) == UNION {[1..k -> S] : k \in 0..n}

InitResp ==
    /\ ServerOff
    /\ JSONOff
    /\ UploadOff
    /\ SlugOff
    /\ RandOff
    /\ RaceOff
    /\ PushOff
    /\ ToolsOff
    /\ respCall \in
          {[c EXCEPT !.w = c.w0] :
              c \in [wpc : {"call"}, called : {"none"},
                     w0 : {[header |-> h, lines |-> <<>>, log |-> <<>>, body |-> <<>>] :
                              h \in FreshHeaders},
                     w : {<<>>},
                     status : StatusCodes,
                     data : Values,
                     headers : SeqsUpTo(CallerHeaders, MaxVariadic),
                     errArg : ErrTexts,
                     errStatus : SeqsUpTo(StatusCodes, MaxVariadic),
                     template : {"nil", "custom", "unsupported"},
                     writeOK : BOOLEAN,
                     prepared : {<<>>},
                     wret : {WNone}]}

\* one call of WriteJSON
WriteJSONCall ==
    /\ wpc = "call"
    /\ LET r == WriteJSON(w, status, data, headers, writeOK)
       IN  respCall' = [respCall EXCEPT !.w = r.w, !.wret = r.err,
                                        !.called = "WriteJSON", !.wpc = "done"]
    /\ UNCHANGED <<serverVars, jsonVars, uploadVars,
                 slugVars, randVars, raceVars, pushVars, toolsVars>>

\* one call of ErrorJSON
ErrorJSONCall ==
    /\ wpc = "call"
    /\ LET r == ErrorJSON(w, errArg, errStatus, template, writeOK)
       IN  respCall' = [respCall EXCEPT !.w = r.w, !.wret = r.err, !.prepared = r.prepared,
                                        !.called = "ErrorJSON", !.wpc = "done"]
    /\ UNCHANGED <<serverVars, jsonVars, uploadVars,
                 slugVars, randVars, raceVars, pushVars, toolsVars>>

NextResp == WriteJSONCall \/ ErrorJSONCall

SpecResp == InitResp /\ [][NextResp]_vars

(***************************************************************************)
(* WriteJSON and ErrorJSON: the properties.                                *)
(***************************************************************************)
\* C12: when json.Marshal cannot encode the value, WriteJSON returns the marshal
\* error and has not touched the response: no header set, no status line, no body.
C12_MarshalFailureUntouched ==
    (wpc = "done" /\ called = "WriteJSON" /\ data = ChanValue) =>
        /\ wret = ErrUnsupportedType
        /\ w = w0
        /\ w.lines = <<>> /\ w.log = <<>> /\ w.body = <<>>

C12_Witness ==
    /\ wpc = "done"
    /\ called = "WriteJSON"
    /\ data = ChanValue
    /\ Len(headers) = 1
    /\ headers[1]["Foo"] = "bar"
    /\ wret = ErrUnsupportedType

\* the status line was written exactly once, with code, before any byte of the body
StatusOnceThenBody(code) ==
    /\ Len(w.lines) = 1
    /\ w.lines[1].code = code
    /\ w.log = <<[ev |-> "WriteHeader", code |-> code], [ev |-> "Write", code |-> 0]>>
    /\ Len(w.body) = 1

\* C13, as stated: on a successful WriteJSON the headers at the moment the status
\* line is written hold every key/value of the caller-supplied headers (none
\* dropped or replaced) and Content-Type: application/json; the status line is
\* written exactly once with the given status, and the bytes only after it.
\* The caller-supplied headers are taken to be the first headers argument.
C13_Original ==
    (wpc = "done" /\ called = "WriteJSON" /\ wret = WNil) =>
        /\ StatusOnceThenBody(status)
        /\ w.lines[1].header["Content-Type"] = "application/json"
        /\ Len(headers) > 0 =>
              \A k \in HeaderKeys :
                  headers[1][k] # Absent => w.lines[1].header[k] = headers[1][k]

\* C13, amended: on a successful WriteJSON the headers at the moment the status
\* line is written hold every key/value of the first headers argument except
\* its Content-Type, which is replaced, and Content-Type: application/json; the
\* keys that argument does not hold keep the value the response had; headers
\* arguments after the first are not read.  The status line is written exactly
\* once with the given status, and the bytes only after it.
C13_HeadersMerged ==
    (wpc = "done" /\ called = "WriteJSON" /\ wret = WNil) =>
        /\ StatusOnceThenBody(status)
        /\ \A k \in HeaderKeys :
              w.lines[1].header[k] =
                 IF k = "Content-Type" THEN "application/json"
                 ELSE IF Len(headers) > 0 /\ headers[1][k] # Absent THEN headers[1][k]
                 ELSE w0.header[k]
        /\ w.body[1] = [data EXCEPT !.type = "json:JSONResponse"]

C13_Witness ==
    /\ wpc = "done"
    /\ called = "WriteJSON"
    /\ wret = WNil
    /\ Len(headers) = 1
    /\ headers[1] = [k \in HeaderKeys |-> IF k = "Foo" THEN "bar" ELSE "text/plain"]
    /\ w0.header["Foo"] = "old"
    /\ w.lines[1].header = [k \in HeaderKeys |-> IF k = "Foo" THEN "bar" ELSE "application/json"]

\* C14: ErrorJSON responds with its first status argument, or 400 when it has
\* none: the one status line of the response carries that code, and that code
\* is the status a configured ErrorResponseTemplate is asked to prepare.
C14_ErrorStatus ==
    (wpc = "done" /\ called = "ErrorJSON") =>
        LET chosen == IF errStatus = <<>> THEN 400 ELSE errStatus[1]
        IN  /\ Len(w.lines) = 1
            /\ w.lines[1].code = chosen
            /\ template # "nil" =>
                  prepared = <<[by |-> "template", text |-> errArg, status |-> chosen]>>

C14_Witness ==
    /\ wpc = "done"
    /\ called = "ErrorJSON"
    /\ errStatus = <<503, 200>>
    /\ template = "custom"
    /\ w.lines[1].code = 503
    /\ prepared[1].status = 503

\* C15, as stated: the payload ErrorJSON writes is template.Prepare(err, status)
\* when ErrorResponseTemplate is set, otherwise the built-in envelope with
\* error = true, message = the error's text and data = the chosen status code.
C15_Original ==
    (wpc = "done" /\ called = "ErrorJSON" /\ wret = WNil) =>
        LET chosen == IF errStatus = <<>> THEN 400 ELSE errStatus[1]
        IN  w.body = <<IF template = "nil"
                       THEN [type |-> "json:JSONResponse", error |-> TRUE,
                             message |-> errArg, data |-> chosen]
                       ELSE [type |-> "json:custom", error |-> TRUE,
                             message |-> errArg, data |-> chosen]>>

(***************************************************************************)
(* UploadFiles and UploadOneFile.                                          *)
(*                                                                         *)
(* A file part is its filename (a sequence of characters), the kind of its *)
(* content and its size in bytes.  The request body is the multipart form  *)
(* of the parts with the shortest framing the format has: a boundary of    *)
(* one character, and for each part the one header line                    *)
(*   Content-Disposition:form-data;name=f;filename=<filename>              *)
(* A file in uploadDir is its name, its size and whether the copy into it  *)
(* was completed.                                                          *)
(***************************************************************************)
\* most file parts in a request
MaxParts == 2

\* buffer := make([]byte, 512)
SniffLen == 512
\* t.MaxFileSize = 1024 * 1024 * 1024
DefaultMaxFileSize == 1073741824
\* t.RandomString(25)
TokenLen == 25
\* len(randStringSource)
SourceLen == 64

randStringSource ==
    <<"a", "b", "c", "d", "e", "f", "g", "h", "i", "j", "k", "l", "m", "n", "o", "p",
      "q", "r", "s", "t", "u", "v", "w", "x", "y", "z", "A", "B", "C", "D", "E", "F",
      "G", "H", "I", "J", "K", "L", "M", "N", "O", "P", "Q", "R", "S", "T", "U", "V",
      "W", "X", "Y", "Z", "0", "1", "2", "3", "4", "5", "6", "7", "8", "9", "_", "+">>

\* a line break of the multipart format
CRLF == 2
\* "--" and the boundary
DelimiterLen == 3
\* Content-Disposition:form-data;name=f;filename=
DispositionLen == 46

Filenames == {<<"a", ".", "b", ".", "p">>, <<"n">>}
Contents == {[kind |-> "empty", size |-> 0], [kind |-> "png", size |-> 50],
             [kind |-> "text", size |-> 50], [kind |-> "text", size |-> 600]}
Parts == {[name |-> n, kind |-> c.kind, size |-> c.size] : n \in Filenames, c \in Contents}

AllowLists == {<<>>, <<"image/png">>, <<"IMAGE/PNG", "text/plain; charset=utf-8">>}
MaxFileSizes == {0, 10, 100}
RenameArgs == {<<>>, <<TRUE>>, <<FALSE>>}
NoFault == [op |-> "none", at |-> 0]
IOFaults == {NoFault, [op |-> "mkdir", at |-> 0]}
            \cup {[op |-> o, at |-> i] : o \in {"create", "copy"}, i \in 1..MaxParts}
\* what rand.IntN is seeded with
Seeds == {0, 37}

UNil == "nil"
UNone == "-"
ErrMkdir == "mkdir: permission denied"
ErrTooBig == "the uploaded file is too big."
ErrReadEOF == "EOF"
ErrInvalidType == "invalid file type"
ErrCreate == "open: permission denied"
ErrCopy == "write: no space left on device"

\* a nil *UploadedFile
NoFile == [OriginalFileName |-> <<>>, NewFileName |-> <<>>, FileSize |-> -1]
UploadedFile(original, new, size) ==
    [OriginalFileName |-> original, NewFileName |-> new, FileSize |-> size]

\* renameFile := true; if len(rename) > 0 { renameFile = rename[0] }
RenameFile(rn) == IF Len(rn) > 0 THEN rn[1] ELSE TRUE

\* variant: the default replaces whatever the field holds
MaxFileSizeAlwaysDefault(size) == DefaultMaxFileSize

\* if t.MaxFileSize == 0 { t.MaxFileSize = 1024 * 1024 * 1024 }
MaxFileSizeOf(size) == IF size = 0 THEN DefaultMaxFileSize ELSE size

\* the bytes of one part in the body: delimiter line, header line, empty line,
\* content, line break
PartLen(p) == DelimiterLen + CRLF + DispositionLen + Len(p.name) + CRLF + CRLF + p.size + CRLF

RECURSIVE PartsLen(_)
PartsLen(ps) == IF ps = <<>> THEN 0 ELSE PartLen(Head(ps)) + PartsLen(Tail(ps))

\* the bytes of the request body: the parts and the closing delimiter
BodyLen(ps) == PartsLen(ps) + DelimiterLen + 2

\* r.Body = http.MaxBytesReader(nil, r.Body, limit); r.ParseMultipartForm(limit)
\* fails on a body that is not a multipart form and on one longer than limit
ParseMultipartForm(ps, ok, limit) == ok /\ BodyLen(ps) <= limit

\* strings.ToLower on the media types of the model
ToLower(t) == IF t = "IMAGE/PNG" THEN "image/png" ELSE t
\* strings.EqualFold
EqualFold(a, b) == ToLower(a) = ToLower(b)

\* http.DetectContentType(buffer): buffer holds the first bytes of the part and,
\* for a part shorter than the buffer, zero bytes after them; a zero byte is not
\* a byte of a text
DetectContentType(p) ==
    CASE p.kind = "png" -> "image/png"
      [] p.kind = "text" /\ p.size >= SniffLen -> "text/plain; charset=utf-8"
      [] OTHER -> "application/octet-stream"

\* variant: the allow-list is not consulted
IsAllowedAlways(type, allow) == TRUE

\* the loop over t.AllowedFileTypes
IsAllowed(type, allow) ==
    IF Len(allow) > 0 THEN \E i \in DOMAIN allow : EqualFold(type, allow[i]) ELSE TRUE

\* rand.IntN(len(randStringSource)), the i-th draw
IntN(seed, i) == (seed + 11 * i) % SourceLen

\* Tools.RandomString
RandomString(l, seed) == [i \in 1..l |-> randStringSource[IntN(seed, i) + 1]]

RECURSIVE FirstDot(_, _)
FirstDot(name, i) ==
    IF i > Len(name) THEN 0 ELSE IF name[i] = "." THEN i ELSE FirstDot(name, i + 1)

\* variant: the extension is taken from the first dot
ExtFirstDot(name) ==
    LET d == FirstDot(name, 1) IN IF d = 0 THEN <<>> ELSE SubSeq(name, d, Len(name))

RECURSIVE LastDot(_, _)
LastDot(name, i) ==
    IF i = 0 THEN 0 ELSE IF name[i] = "." THEN i ELSE LastDot(name, i - 1)

\* filepath.Ext
Ext(name) ==
    LET d == LastDot(name, Len(name)) IN IF d = 0 THEN <<>> ELSE SubSeq(name, d, Len(name))

\* os.Create(filepath.Join(uploadDir, name)): a file of that name is truncated
Create(dsk, name) ==
    {f \in dsk : f.name # name} \cup {[name |-> name, size |-> 0, whole |-> FALSE]}

\* io.Copy(outfile, infile) of size bytes, to its end
Copy(dsk, name, size) ==
    {f \in dsk : f.name # name} \cup {[name |-> name, size |-> size, whole |-> TRUE]}

\* the function literal in the loop: one part, the i-th
SavePart(p, i, dsk, cfg) ==
    IF p.size = 0
    THEN [file |-> NoFile, err |-> ErrReadEOF, disk |-> dsk]
    ELSE IF ~IsAllowed(DetectContentType(p), cfg.allow)
    THEN [file |-> NoFile, err |-> ErrInvalidType, disk |-> dsk]
    ELSE LET newName == IF cfg.renameFile
                        THEN RandomString(TokenLen, cfg.seed + i) \o Ext(p.name)
                        ELSE p.name
         IN  IF cfg.fault = [op |-> "create", at |-> i]
             THEN [file |-> NoFile, err |-> ErrCreate, disk |-> dsk]
             ELSE IF cfg.fault = [op |-> "copy", at |-> i]
             THEN [file |-> NoFile, err |-> ErrCopy, disk |-> Create(dsk, newName)]
             ELSE [file |-> UploadedFile(p.name, newName, p.size),
                   err |-> UNil,
                   disk |-> Copy(Create(dsk, newName), newName, p.size)]

\* variant: the records made so far are dropped on an error
PartialResultNone(files) == <<>>

\* if err != nil { return uploadedFiles, err }
PartialResult(files) == files

\* the loops over r.MultipartForm.File, from the i-th part on
RECURSIVE SaveParts(_, _, _, _, _)
SaveParts(ps, i, files, dsk, cfg) ==
    IF i > Len(ps) THEN [files |-> files, err |-> UNil, disk |-> dsk]
    ELSE LET r == SavePart(ps[i], i, dsk, cfg) IN
         IF r.err # UNil
         THEN [files |-> PartialResult(files), err |-> r.err, disk |-> r.disk]
         ELSE SaveParts(ps, i + 1, Append(files, r.file), r.disk, cfg)

\* Tools.UploadFiles; in: the request, the configuration and the environment
UploadFiles(in, rn) ==
    IF in.fault.op = "mkdir"
    THEN [files |-> <<>>, err |-> ErrMkdir, disk |-> in.disk, maxFileSize |-> in.maxFileSize]
    ELSE LET limit == MaxFileSizeOf(in.maxFileSize) IN
         IF ~ParseMultipartForm(in.parts, in.formOK, limit)
         THEN [files |-> <<>>, err |-> ErrTooBig, disk |-> in.disk, maxFileSize |-> limit]
         ELSE LET r == SaveParts(in.parts, 1, <<>>, in.disk,
                                 [allow |-> in.allow, renameFile |-> RenameFile(rn),
                                  fault |-> in.fault, seed |-> in.seed])
              IN  [files |-> r.files, err |-> r.err, disk |-> r.disk, maxFileSize |-> limit]

\* Tools.UploadOneFile; files[0] of an empty slice panics
UploadOneFile(in, rn) ==
    LET r == UploadFiles(in, <<RenameFile(rn)>>)
        base == [file |-> NoFile, err |-> r.err, panic |-> FALSE, disk |-> r.disk,
                 maxFileSize |-> r.maxFileSize]
    IN  IF r.err # UNil THEN base
        ELSE IF Len(r.files) = 0 THEN [base EXCEPT !.err = UNone, !.panic = TRUE]
        ELSE [base EXCEPT !.file = r.files[1]]

InitUpload ==
    /\ ServerOff
    /\ JSONOff
    /\ RespOff
    /\ SlugOff
    /\ RandOff
    /\ RaceOff
    /\ PushOff
    /\ ToolsOff
    /\ uploadCall \in [upc : {"call"}, uploaded : {"none"},
                       parts : SeqsUpTo(Parts, MaxParts),
                       formOK : BOOLEAN,
                       AllowedFileTypes : AllowLists,
                       MaxFileSize : MaxFileSizes,
                       rename : RenameArgs,
                       ioFault : IOFaults,
                       disk : {{}},
                       ufiles : {<<>>},
                       ufile : {NoFile},
                       uerr : {UNone},
                       upanic : {FALSE}]

\* what a call reads
Input(seed) ==
    [parts |-> parts, formOK |-> formOK, allow |-> AllowedFileTypes,
     maxFileSize |-> MaxFileSize, fault |-> ioFault, disk |-> disk, seed |-> seed]

\* one call of UploadFiles
UploadFilesCall ==
    /\ upc = "call"
    /\ \E seed \in Seeds :
          LET r == UploadFiles(Input(seed), rename)
          IN  uploadCall' = [uploadCall EXCEPT !.ufiles = r.files, !.uerr = r.err,
                                              !.disk = r.disk, !.MaxFileSize = r.maxFileSize,
                                              !.uploaded = "UploadFiles", !.upc = "done"]
    /\ UNCHANGED <<serverVars, jsonVars, respVars,
                 slugVars, randVars, raceVars, pushVars, toolsVars>>

\* one call of UploadOneFile
UploadOneFileCall ==
    /\ upc = "call"
    /\ \E seed \in Seeds :
          LET r == UploadOneFile(Input(seed), rename)
          IN  uploadCall' = [uploadCall EXCEPT !.ufile = r.file, !.uerr = r.err,
                                              !.upanic = r.panic, !.disk = r.disk,
                                              !.MaxFileSize = r.maxFileSize,
                                              !.uploaded = "UploadOneFile", !.upc = "done"]
    /\ UNCHANGED <<serverVars, jsonVars, respVars,
                 slugVars, randVars, raceVars, pushVars, toolsVars>>

NextUpload == UploadFilesCall \/ UploadOneFileCall

SpecUpload == InitUpload /\ [][NextUpload]_vars

(***************************************************************************)
(* UploadFiles and UploadOneFile: the properties.                          *)
(***************************************************************************)
\* the call got as far as the loop over the parts
ReachedParts == uerr \notin {ErrMkdir, ErrTooBig}

\* the file of the k-th record is in uploadDir, whole
StaysOnDisk(k) ==
    \E f \in disk : f.name = ufiles[k].NewFileName /\ f.whole /\ f.size = ufiles[k].FileSize

\* the k-th record is the record of the k-th part
RecordOf(k) ==
    /\ ufiles[k].OriginalFileName = parts[k].name
    /\ ufiles[k].FileSize = parts[k].size

\* a part after the k-th was stored under the k-th part's name: a part with a
\* record, or the failing part when it failed after os.Create
Overwritten(k) ==
    /\ rename = <<FALSE>>
    /\ \E j \in DOMAIN parts :
          /\ j > k
          /\ parts[j].name = parts[k].name
          /\ j <= Len(ufiles) \/ (j = Len(ufiles) + 1 /\ uerr = ErrCopy)

\* what is in uploadDir is the files of the records and at most the file the
\* failing part had begun
NothingElseOnDisk ==
    /\ \A f \in disk : f.whole => \E k \in DOMAIN ufiles : ufiles[k].NewFileName = f.name
    /\ Cardinality({f \in disk : ~f.whole}) <= 1
    /\ uerr = UNil => \A f \in disk : f.whole

\* C16, as stated: if processing a file part fails, no later part is processed
\* and UploadFiles returns the error with the records of exactly the parts fully
\* persisted before it, in processing order, and their files stay in uploadDir;
\* with no failure it returns one record per file part and a nil error.
C16_Original ==
    (upc = "done" /\ uploaded = "UploadFiles" /\ ReachedParts) =>
        /\ Len(ufiles) <= Len(parts)
        /\ \A k \in DOMAIN ufiles : RecordOf(k) /\ StaysOnDisk(k)
        /\ uerr = UNil => Len(ufiles) = Len(parts)
        /\ uerr # UNil => Len(ufiles) < Len(parts)
        /\ NothingElseOnDisk

\* C16, amended: as stated, except that the file of a record stays in uploadDir
\* only while no later part of the batch is stored under the same name: with
\* rename false, a later part of the same filename (one that got its record, or
\* the failing part when its copy failed) truncates or replaces that file.
C16_FirstFailureAborts ==
    (upc = "done" /\ uploaded = "UploadFiles" /\ ReachedParts) =>
        /\ Len(ufiles) <= Len(parts)
        /\ \A k \in DOMAIN ufiles : RecordOf(k) /\ (~Overwritten(k) => StaysOnDisk(k))
        /\ uerr = UNil => Len(ufiles) = Len(parts)
        /\ uerr # UNil => Len(ufiles) < Len(parts)
        /\ NothingElseOnDisk

C16_Witness ==
    /\ upc = "done"
    /\ uploaded = "UploadFiles"
    /\ Len(parts) = 2
    /\ parts[1].kind = "png"
    /\ parts[2].kind = "png"
    /\ ioFault = [op |-> "copy", at |-> 2]
    /\ uerr = ErrCopy
    /\ Len(ufiles) = 1
    /\ RecordOf(1)
    /\ StaysOnDisk(1)
    /\ Cardinality(disk) = 2

\* the media type of a part's content, sniffed from its first 512 bytes
SniffedType(p) == IF p.kind = "png" THEN "image/png" ELSE "text/plain; charset=utf-8"

\* the parts the loop took up
Processed == {k \in DOMAIN parts : k <= Len(ufiles) + (IF uerr = UNil THEN 0 ELSE 1)}

\* C17, as stated: UploadFiles rejects a part with 'invalid file type' if and
\* only if AllowedFileTypes is non-empty and the type sniffed from the part's
\* first 512 bytes equals none of its entries, case-insensitively; with an empty
\* allow-list every part of a parsed form passes validation and is persisted.
\* Taken for the calls in which no file-system operation fails.
C17_Original ==
    (upc = "done" /\ uploaded = "UploadFiles" /\ ReachedParts /\ ioFault = NoFault) =>
        /\ \A k \in Processed :
              (k = Len(ufiles) + 1 /\ uerr = ErrInvalidType)
                 <=> /\ AllowedFileTypes # <<>>
                     /\ \A i \in DOMAIN AllowedFileTypes :
                           ~EqualFold(SniffedType(parts[k]), AllowedFileTypes[i])
        /\ AllowedFileTypes = <<>> => (uerr = UNil /\ Len(ufiles) = Len(parts))

Alphabet == {randStringSource[i] : i \in DOMAIN randStringSource}

\* e is the extension of name: empty when name has no dot, else its last dot and
\* what follows
IsExtensionOf(e, name) ==
    IF \A i \in DOMAIN name : name[i] # "."
    THEN e = <<>>
    ELSE /\ Len(e) >= 1 /\ Len(e) <= Len(name)
         /\ e = SubSeq(name, Len(name) - Len(e) + 1, Len(name))
         /\ e[1] = "."
         /\ \A i \in 2..Len(e) : e[i] # "."

\* C18: for every persisted part the stored name is the part's filename when
\* rename is false, and otherwise (true or omitted) 25 characters of the
\* 64-symbol alphabet followed by the filename's extension; the record's
\* original name is the part's filename and its size the bytes copied.
C18_StoredName ==
    /\ Cardinality(Alphabet) = 64
    /\ (upc = "done" /\ uploaded = "UploadFiles") =>
          \A k \in DOMAIN ufiles :
              LET rec == ufiles[k]
                  new == rec.NewFileName
              IN  /\ rec.OriginalFileName = parts[k].name
                  /\ rec.FileSize = parts[k].size
                  /\ \E f \in disk : f.name = new /\ (~Overwritten(k) => f.size = rec.FileSize)
                  /\ IF rename = <<FALSE>>
                     THEN new = parts[k].name
                     ELSE /\ Len(new) >= 25
                          /\ \A i \in 1..25 : new[i] \in Alphabet
                          /\ IsExtensionOf(SubSeq(new, 26, Len(new)), parts[k].name)

C18_Witness ==
    /\ upc = "done"
    /\ uploaded = "UploadFiles"
    /\ rename = <<>>
    /\ Len(ufiles) = 2
    /\ ufiles[1].OriginalFileName = <<"a", ".", "b", ".", "p">>
    /\ Len(ufiles[1].NewFileName) = 27
    /\ SubSeq(ufiles[1].NewFileName, 26, 27) = <<".", "p">>
    /\ ufiles[2].OriginalFileName = <<"n">>
    /\ Len(ufiles[2].NewFileName) = 25
    /\ ufiles[1].NewFileName # ufiles[2].NewFileName

\* C19, as stated: uploading one 50-byte PNG file in a multipart request with
\* AllowedFileTypes = [image/png] succeeds when MaxFileSize = 100 and fails with
\* 'the uploaded file is too big' when MaxFileSize = 10.
C19_Original ==
    (/\ upc = "done"
     /\ uploaded = "UploadFiles"
     /\ formOK
     /\ ioFault = NoFault
     /\ Len(parts) = 1
     /\ parts[1].kind = "png"
     /\ parts[1].size = 50
     /\ AllowedFileTypes = <<"image/png">>)
        => /\ MaxFileSize = 100 => (uerr = UNil /\ Len(ufiles) = 1)
           /\ MaxFileSize = 10 => uerr = ErrTooBig

\* C20, as stated: UploadOneFile returns either no file and an error, or one
\* record and a nil error having persisted exactly that one file; it never
\* panics, not even on a form with no file part, and never persists a second
\* file.
C20_Original ==
    (upc = "done" /\ uploaded = "UploadOneFile") =>
        /\ ~upanic
        /\ \/ ufile = NoFile /\ uerr # UNil
           \/ /\ ufile # NoFile
              /\ uerr = UNil
              /\ disk = {[name |-> ufile.NewFileName, size |-> ufile.FileSize, whole |-> TRUE]}
        /\ Cardinality(disk) <= 1

(***************************************************************************)
(* Slugfy.                                                                 *)
(*                                                                         *)
(* A string is a sequence of characters.  The characters of the model are  *)
(* a lower-case letter, an upper-case letter, a digit, the hyphen, the     *)
(* space, and KELVIN: the Kelvin sign U+212A, a character outside ASCII    *)
(* that strings.ToLower maps to the ASCII letter k.                        *)
(***************************************************************************)
\* longest argument of Slugfy, in characters
MaxSlugLen == 4

SlugChars == {"a", "B", "7", "-", " ", "KELVIN"}

LowerLetters ==
    {"a", "b", "c", "d", "e", "f", "g", "h", "i", "j", "k", "l", "m", "n", "o", "p",
     "q", "r", "s", "t", "u", "v", "w", "x", "y", "z"}
UpperLetters ==
    {"A", "B", "C", "D", "E", "F", "G", "H", "I", "J", "K", "L", "M", "N", "O", "P",
     "Q", "R", "S", "T", "U", "V", "W", "X", "Y", "Z"}
Digits == {"0", "1", "2", "3", "4", "5", "6", "7", "8", "9"}

SNil == "nil"
SNone == "-"
ErrEmptyString == "empty string not allowed"
ErrEmptySlug == "empty string, after slug process"

\* unicode.ToLower on one character
LowerRune(c) ==
    CASE c = "KELVIN" -> "k"
      [] c \in UpperLetters ->
            (CHOOSE l \in LowerLetters :
                \E i \in 1..26 : randStringSource[i] = l /\ randStringSource[i + 26] = c)
      [] OTHER -> c

\* strings.ToLower
StringsToLower(str) == [i \in DOMAIN str |-> LowerRune(str[i])]

\* the character class [^a-z\d] of the regular expression
InClass(c) == c \notin LowerLetters \cup Digits

\* variant: every character of the class is replaced by a hyphen of its own
RECURSIVE ReplaceEach(_)
ReplaceEach(str) ==
    IF str = <<>> THEN <<>>
    ELSE IF InClass(Head(str)) THEN <<"-">> \o ReplaceEach(Tail(str))
    ELSE <<Head(str)>> \o ReplaceEach(Tail(str))

\* str without its longest prefix of characters of the class
RECURSIVE SkipRun(_)
SkipRun(str) ==
    IF str # <<>> /\ InClass(Head(str)) THEN SkipRun(Tail(str)) ELSE str

\* re.ReplaceAllString(str, "-") for re = [^a-z\d]+ : leftmost, longest matches
RECURSIVE ReplaceAllString(_)
ReplaceAllString(str) ==
    IF str = <<>> THEN <<>>
    ELSE IF InClass(Head(str)) THEN <<"-">> \o ReplaceAllString(SkipRun(str))
    ELSE <<Head(str)>> \o ReplaceAllString(Tail(str))

RECURSIVE TrimLeft(_)
TrimLeft(str) ==
    IF str # <<>> /\ Head(str) = "-" THEN TrimLeft(Tail(str)) ELSE str

RECURSIVE TrimRight(_)
TrimRight(str) ==
    IF str # <<>> /\ str[Len(str)] = "-"
    THEN TrimRight(SubSeq(str, 1, Len(str) - 1))
    ELSE str

\* variant: the first and the last character are cut, whatever they are
TrimEnds(str) == IF Len(str) <= 2 THEN <<>> ELSE SubSeq(str, 2, Len(str) - 1)

\* strings.Trim(str, "-")
Trim(str) == TrimRight(TrimLeft(str))

\* Tools.Slugfy
Slugfy(str) ==
    IF str = <<>> THEN [slug |-> <<>>, err |-> ErrEmptyString]
    ELSE LET sl == Trim(ReplaceAllString(StringsToLower(str)))
         IN  IF Len(sl) = 0 THEN [slug |-> <<>>, err |-> ErrEmptySlug]
             ELSE [slug |-> sl, err |-> SNil]

InitSlug ==
    /\ ServerOff
    /\ JSONOff
    /\ RespOff
    /\ UploadOff
    /\ RandOff
    /\ RaceOff
    /\ PushOff
    /\ ToolsOff
    /\ slugCall \in [spc : {"call"}, s : SeqsUpTo(SlugChars, MaxSlugLen),
                     slug : {<<>>}, serr : {SNone}, slug2 : {<<>>}, serr2 : {SNone}]

\* one call of Slugfy, on s
SlugfyCall ==
    /\ spc = "call"
    /\ LET r == Slugfy(slugArg)
       IN  slugCall' = [slugCall EXCEPT !.slug = r.slug, !.serr = r.err, !.spc = "done"]
    /\ UNCHANGED <<serverVars, jsonVars, respVars, uploadVars, randVars, raceVars,
                   pushVars, toolsVars>>

\* a second call of Slugfy, on the slug the first call returned
SlugfyAgain ==
    /\ spc = "done"
    /\ serr = SNil
    /\ LET r == Slugfy(slug)
       IN  slugCall' = [slugCall EXCEPT !.slug2 = r.slug, !.serr2 = r.err, !.spc = "again"]
    /\ UNCHANGED <<serverVars, jsonVars, respVars, uploadVars, randVars, raceVars,
                   pushVars, toolsVars>>

NextSlug == SlugfyCall \/ SlugfyAgain

SpecSlug == InitSlug /\ [][NextSlug]_vars

(***************************************************************************)
(* Slugfy: the properties.                                                 *)
(***************************************************************************)
\* C21: Slugfy is idempotent on its results: whenever Slugfy(s) succeeds with r,
\* Slugfy(r) succeeds and returns r.
C21_Idempotent ==
    spc = "again" => (serr2 = SNil /\ slug2 = slug)

C21_Witness ==
    /\ spc = "again"
    /\ slugArg = <<" ", "B", " ", "7">>
    /\ slug = <<"b", "-", "7">>
    /\ slug2 = slug

\* the characters [a-z0-9]
Alnum == LowerLetters \cup Digits

\* the positions of the characters [a-z0-9] of str
AlnumAt(str) == {i \in DOMAIN str : str[i] \in Alnum}

\* the position of the k-th character [a-z0-9] of str
NthAlnum(str, k) ==
    CHOOSE i \in AlnumAt(str) : Cardinality({j \in AlnumAt(str) : j <= i}) = k

\* r is str with every maximal run of characters outside [a-z0-9] replaced by one
\* hyphen and the leading and trailing hyphens removed: r and str have the same
\* characters [a-z0-9] in the same order, everything else in r is a hyphen, r
\* starts and ends with a character [a-z0-9], and two neighbours among these
\* characters are adjacent in r when they are adjacent in str and one hyphen
\* apart in r when they are not
IsSlugOf(r, str) ==
    LET n == Cardinality(AlnumAt(str)) IN
    /\ Cardinality(AlnumAt(r)) = n
    /\ \A i \in DOMAIN r : r[i] \in Alnum \cup {"-"}
    /\ \A k \in 1..n : r[NthAlnum(r, k)] = str[NthAlnum(str, k)]
    /\ n > 0 => (NthAlnum(r, 1) = 1 /\ NthAlnum(r, n) = Len(r))
    /\ \A k \in 1..(n - 1) :
          NthAlnum(r, k + 1) - NthAlnum(r, k)
              = (IF NthAlnum(str, k + 1) - NthAlnum(str, k) = 1 THEN 1 ELSE 2)

\* C22: Slugfy fails with an empty result - "empty string not allowed" when s is
\* empty, "empty string, after slug process" when s is non-empty but has no
\* character [a-z0-9] after lowercasing - or returns the lowercased s with every
\* maximal run of characters outside [a-z0-9] replaced by one hyphen and the
\* leading and trailing hyphens removed; a returned slug is non-empty, contains
\* only [a-z0-9-], has no two adjacent hyphens and neither starts nor ends with a
\* hyphen.
C22_SlugShape ==
    spc \in {"done", "again"} =>
        LET lower == StringsToLower(slugArg) IN
        /\ slugArg = <<>> => (serr = ErrEmptyString /\ slug = <<>>)
        /\ (slugArg # <<>> /\ AlnumAt(lower) = {}) => (serr = ErrEmptySlug /\ slug = <<>>)
        /\ AlnumAt(lower) # {} =>
              /\ serr = SNil
              /\ IsSlugOf(slug, lower)
              /\ slug # <<>>
              /\ \A i \in DOMAIN slug : slug[i] \in Alnum \cup {"-"}
              /\ \A i \in 1..(Len(slug) - 1) : ~(slug[i] = "-" /\ slug[i + 1] = "-")
              /\ slug[1] # "-"
              /\ slug[Len(slug)] # "-"

C22_Witness ==
    /\ spc = "done"
    /\ slugArg = <<"KELVIN", " ", "-", "B">>
    /\ slug = <<"k", "-", "b">>
    /\ serr = SNil

(***************************************************************************)
(* RandomString, with every outcome of rand.IntN.                          *)
(***************************************************************************)
\* largest argument of RandomString
MaxRandLen == 2

\* a zero byte
NUL == "NUL"

\* variant: the slice is one byte too long
MakeBytesExtra(l) == [i \in 1..(l + 1) |-> NUL]

\* res := make([]byte, l)
MakeBytes(l) == [i \in 1..l |-> NUL]

\* the values rand.IntN(n) can return
IntNValues(n) == 0..(n - 1)

InitRand ==
    /\ ServerOff
    /\ JSONOff
    /\ RespOff
    /\ UploadOff
    /\ SlugOff
    /\ RaceOff
    /\ PushOff
    /\ ToolsOff
    /\ randCall \in {[rpc |-> "loop", l |-> l, res |-> MakeBytes(l), i |-> 0, ret |-> <<>>] :
                        l \in 0..MaxRandLen}

\* one iteration of: for i := range res { n := rand.IntN(...); res[i] = randStringSource[n] }
RandomStringStep ==
    /\ rpc = "loop"
    /\ ri < Len(res)
    /\ \E n \in IntNValues(Len(randStringSource)) :
          randCall' = [randCall EXCEPT !.res[ri + 1] = randStringSource[n + 1],
                                       !.i = ri + 1]
    /\ UNCHANGED <<serverVars, jsonVars, respVars, uploadVars, slugVars, raceVars,
                   pushVars, toolsVars>>

\* the loop is over: return string(res)
RandomStringReturn ==
    /\ rpc = "loop"
    /\ ri = Len(res)
    /\ randCall' = [randCall EXCEPT !.ret = res, !.rpc = "done"]
    /\ UNCHANGED <<serverVars, jsonVars, respVars, uploadVars, slugVars, raceVars,
                   pushVars, toolsVars>>

NextRand == RandomStringStep \/ RandomStringReturn

SpecRand == InitRand /\ [][NextRand]_vars

(***************************************************************************)
(* RandomString: the properties.                                           *)
(***************************************************************************)
\* a-z, A-Z, 0-9, '_' and '+'
SafeAlphabet == LowerLetters \cup UpperLetters \cup Digits \cup {"_", "+"}

\* C23: for every n >= 0, RandomString(n) returns a string of length exactly n
\* whose characters are all members of the fixed 64-symbol alphabet (a-z, A-Z,
\* 0-9, '_', '+'), whatever the random choices are.
C23_LengthAndAlphabet ==
    /\ Cardinality(SafeAlphabet) = 64
    /\ rpc = "done" =>
          /\ Len(randRet) = randLen
          /\ \A i \in DOMAIN randRet : randRet[i] \in SafeAlphabet

C23_Witness ==
    /\ rpc = "done"
    /\ randLen = 2
    /\ randRet = <<"+", "a">>

(***************************************************************************)
(* Concurrent UploadFiles calls on one shared Tools.                       *)
(*                                                                         *)
(* Each call is a goroutine; its steps are the accesses to t.MaxFileSize   *)
(* and the calls around them.  Nothing orders the accesses of different    *)
(* calls, so a read may observe the current value or, in a call that has   *)
(* not written the field itself, the value it held before the calls began. *)
(***************************************************************************)
\* the calls that run concurrently
MaxCallers == 2

Callers == 1..MaxCallers

\* the multipart body every call receives: one file part
RaceParts == <<[name |-> <<"n">>, kind |-> "png", size |-> 50]>>

\* variant: the default is written whatever the field holds
NeedsDefaultAlways(size) == TRUE

\* if t.MaxFileSize == 0
NeedsDefault(size) == size = 0

\* the values a read of t.MaxFileSize by call p can observe
Observed(p) ==
    {sharedMaxFileSize} \cup (IF p \in writers THEN {} ELSE {initialMaxFileSize})

InitRace ==
    /\ ServerOff
    /\ JSONOff
    /\ RespOff
    /\ UploadOff
    /\ SlugOff
    /\ RandOff
    /\ PushOff
    /\ ToolsOff
    /\ raceCall \in {[cpc |-> [p \in Callers |-> "mkdir"], initial |-> m, shared |-> m,
                      writers |-> {}, overlap |-> FALSE,
                      limit |-> [p \in Callers |-> -1],
                      err |-> [p \in Callers |-> UNone], disk |-> {}] :
                        m \in MaxFileSizes}

\* t.CreateDirIfNotExists(uploadDir, 0755); on an error: return nil, err
RaceMkdir(p) ==
    /\ cpc[p] = "mkdir"
    /\ \E ok \in BOOLEAN :
          raceCall' = IF ok
                      THEN [raceCall EXCEPT !.cpc[p] = "check"]
                      ELSE [raceCall EXCEPT !.cpc[p] = "done", !.err[p] = ErrMkdir]
    /\ UNCHANGED <<serverVars, jsonVars, respVars, uploadVars, slugVars, randVars,
                   pushVars, toolsVars>>

\* if t.MaxFileSize == 0: the read
RaceCheck(p) ==
    /\ cpc[p] = "check"
    /\ \E v \in Observed(p) :
          raceCall' = IF NeedsDefault(v)
                      THEN [raceCall EXCEPT
                               !.cpc[p] = "write",
                               !.overlap = @ \/ \E q \in Callers \ {p} : cpc[q] = "write"]
                      ELSE [raceCall EXCEPT !.cpc[p] = "limit"]
    /\ UNCHANGED <<serverVars, jsonVars, respVars, uploadVars, slugVars, randVars,
                   pushVars, toolsVars>>

\* t.MaxFileSize = 1024 * 1024 * 1024: the write
RaceWrite(p) ==
    /\ cpc[p] = "write"
    /\ raceCall' = [raceCall EXCEPT !.shared = DefaultMaxFileSize,
                                    !.writers = @ \cup {p},
                                    !.cpc[p] = "limit"]
    /\ UNCHANGED <<serverVars, jsonVars, respVars, uploadVars, slugVars, randVars,
                   pushVars, toolsVars>>

\* r.Body = http.MaxBytesReader(nil, r.Body, int64(t.MaxFileSize)): the read, and
\* r.ParseMultipartForm under that limit; on an error: return nil, "too big"
RaceLimit(p) ==
    /\ cpc[p] = "limit"
    /\ \E v \in Observed(p) :
          raceCall' = IF ParseMultipartForm(RaceParts, TRUE, v)
                      THEN [raceCall EXCEPT !.limit[p] = v, !.cpc[p] = "save"]
                      ELSE [raceCall EXCEPT !.limit[p] = v, !.cpc[p] = "done",
                                            !.err[p] = ErrTooBig]
    /\ UNCHANGED <<serverVars, jsonVars, respVars, uploadVars, slugVars, randVars,
                   pushVars, toolsVars>>

\* the loops over r.MultipartForm.File, and the return
RaceSave(p) ==
    /\ cpc[p] = "save"
    /\ LET r == SaveParts(RaceParts, 1, <<>>, cdisk,
                          [allow |-> <<>>, renameFile |-> TRUE, fault |-> NoFault, seed |-> p])
       IN  raceCall' = [raceCall EXCEPT !.disk = r.disk, !.err[p] = r.err, !.cpc[p] = "done"]
    /\ UNCHANGED <<serverVars, jsonVars, respVars, uploadVars, slugVars, randVars,
                   pushVars, toolsVars>>

NextRace ==
    \E p \in Callers :
        \/ RaceMkdir(p)
        \/ RaceCheck(p)
        \/ RaceWrite(p)
        \/ RaceLimit(p)
        \/ RaceSave(p)

SpecRace == InitRace /\ [][NextRace]_vars

(***************************************************************************)
(* Concurrent UploadFiles calls: the properties.                           *)
(***************************************************************************)
\* C24: two UploadFiles calls running concurrently on one shared Tools whose
\* MaxFileSize is 0 can both pass the MaxFileSize == 0 check and both perform the
\* unsynchronized write of the default; when MaxFileSize is non-zero before the
\* concurrent use, no UploadFiles call writes to it.  (That the double write is
\* reachable is what C24_Witness shows; the formula says when writes happen.)
C24_WritesOnlyFromZero ==
    /\ initialMaxFileSize # 0 =>
          /\ writers = {}
          /\ sharedMaxFileSize = initialMaxFileSize
          /\ \A p \in Callers : cpc[p] # "write"
    /\ \A p \in Callers :
          (p \in writers \/ cpc[p] = "write") =>
              (initialMaxFileSize = 0 /\ cerr[p] # ErrMkdir)
    /\ writers # {} => sharedMaxFileSize = DefaultMaxFileSize
    /\ overlap => initialMaxFileSize = 0

C24_Witness ==
    /\ initialMaxFileSize = 0
    /\ overlap
    /\ {1, 2} \subseteq writers
    /\ sharedMaxFileSize = DefaultMaxFileSize

(***************************************************************************)
(* PushJSONToRemote.                                                       *)
(*                                                                         *)
(* A client argument is a usable (non-nil) *http.Client.  What the remote  *)
(* end does is an input of the call: it answers with a response, of any    *)
(* status code, or the round trip fails.                                   *)
(***************************************************************************)
URIs == {"http://example.com/some/path", "://example.com"}
Clients == {"c1", "c2"}
DefaultClient == "&http.Client{}"
PNil == "nil"
PNone == "-"
ErrMissingScheme == "parse: missing protocol scheme"
ErrConnRefused == "dial tcp: connection refused"

\* a nil *http.Response
NoResponse == [StatusCode |-> 0, from |-> "-"]
Remotes ==
    {[ok |-> TRUE, resp |-> [StatusCode |-> c, from |-> "remote"]] : c \in StatusCodes}
    \cup {[ok |-> FALSE, resp |-> NoResponse]}

\* variant: the supplied clients are not used
HTTPClientDefault(cs) == DefaultClient

\* httpClient := &http.Client{}; if len(client) > 0 { httpClient = client[0] }
HTTPClient(cs) == IF Len(cs) > 0 THEN cs[1] ELSE DefaultClient

\* http.NewRequest(method, u, body): fails on a uri url.Parse rejects
NewRequest(method, u, out) ==
    IF u = "://example.com"
    THEN [req |-> <<>>, err |-> ErrMissingScheme]
    ELSE [req |-> <<[method |-> method, uri |-> u, contentType |-> Absent, body |-> out]>>,
          err |-> PNil]

\* httpClient.Do(request)
Do(client, req, rem) ==
    IF rem.ok THEN [resp |-> rem.resp, err |-> PNil]
    ELSE [resp |-> NoResponse, err |-> ErrConnRefused]

\* Tools.PushJSONToRemote
PushJSONToRemote(u, v, cs, rem) ==
    LET m == Marshal(v) IN
    IF m.err # WNil
    THEN [resp |-> NoResponse, status |-> 0, err |-> m.err, sent |-> <<>>]
    ELSE LET httpClient == HTTPClient(cs)
             nr == NewRequest("POST", u, m.out)
         IN  IF nr.err # PNil
             THEN [resp |-> NoResponse, status |-> StatusBadRequest, err |-> nr.err,
                   sent |-> <<>>]
             ELSE LET request == [nr.req[1] EXCEPT !.contentType = "application/json"]
                      d == Do(httpClient, request, rem)
                      by == <<[client |-> httpClient, request |-> request]>>
                  IN  IF d.err # PNil
                      THEN [resp |-> NoResponse, status |-> 0, err |-> d.err, sent |-> by]
                      ELSE [resp |-> d.resp, status |-> d.resp.StatusCode, err |-> PNil,
                            sent |-> by]

InitPush ==
    /\ ServerOff
    /\ JSONOff
    /\ RespOff
    /\ UploadOff
    /\ SlugOff
    /\ RandOff
    /\ RaceOff
    /\ ToolsOff
    /\ pushCall \in [ppc : {"call"}, uri : URIs, data : Values,
                     clients : SeqsUpTo(Clients, MaxVariadic), remote : Remotes,
                     sent : {<<>>}, resp : {NoResponse}, status : {-1}, err : {PNone}]

\* one call of PushJSONToRemote
PushJSONToRemoteCall ==
    /\ ppc = "call"
    /\ LET r == PushJSONToRemote(uri, pushData, clients, remote)
       IN  pushCall' = [pushCall EXCEPT !.resp = r.resp, !.status = r.status,
                                        !.err = r.err, !.sent = r.sent, !.ppc = "done"]
    /\ UNCHANGED <<serverVars, jsonVars, respVars, uploadVars, slugVars, randVars,
                   raceVars, toolsVars>>

NextPush == PushJSONToRemoteCall

SpecPush == InitPush /\ [][NextPush]_vars

(***************************************************************************)
(* PushJSONToRemote: the properties.                                       *)
(***************************************************************************)
\* the inputs of the call, by what goes wrong
Unserializable == pushData.type = "chan"
Unconstructible == ~Unserializable /\ uri = "://example.com"
RoundTripFails == ~Unserializable /\ ~Unconstructible /\ ~remote.ok
RoundTripSucceeds == ~Unserializable /\ ~Unconstructible /\ remote.ok

\* C25: PushJSONToRemote returns the raw response, that response's status code
\* and a nil error when the POST round trip succeeds, and on every failure returns
\* a nil response with a non-nil error: status 0 when serializing the value or
\* the round trip fails, status 400 when the request cannot be constructed.  The
\* request is a POST with Content-Type application/json sent through the first
\* supplied client, or a default client when none is supplied.
C25_PushResult ==
    ppc = "done" =>
        /\ RoundTripSucceeds =>
              (presp = remote.resp /\ pstatus = remote.resp.StatusCode /\ perr = PNil)
        /\ (Unserializable \/ RoundTripFails) =>
              (presp = NoResponse /\ pstatus = 0 /\ perr \notin {PNil, PNone})
        /\ Unconstructible =>
              (presp = NoResponse /\ pstatus = 400 /\ perr \notin {PNil, PNone})
        /\ (Unserializable \/ Unconstructible) => sent = <<>>
        /\ (RoundTripSucceeds \/ RoundTripFails) =>
              /\ Len(sent) = 1
              /\ sent[1].request.method = "POST"
              /\ sent[1].request.contentType = "application/json"
              /\ sent[1].request.uri = uri
              /\ sent[1].request.body.type = "json:" \o pushData.type
              /\ sent[1].client = (IF clients = <<>> THEN DefaultClient ELSE clients[1])

C25_Witness ==
    /\ ppc = "done"
    /\ clients = <<"c2", "c1">>
    /\ remote.ok
    /\ presp.StatusCode = 503
    /\ pstatus = 503
    /\ perr = PNil
    /\ sent[1].client = "c2"

(***************************************************************************)
(* RunServer: the results of the wait and the serving goroutine.           *)
(***************************************************************************)
\* C26, as stated: RunServer returns nil only after it has performed the drain
\* and the graceful stop succeeded, and the server-error case of the wait never
\* returns nil - in particular not when the listen-and-serve call ended with the
\* server-closed sentinel before any signal or cancellation was observed.
C26_Original ==
    /\ (pc = "done" /\ ret = Nil) =>
          (trigger \in {"signal", "ctx"} /\ calls = <<"Shutdown">> /\ shutdownRes = Nil)
    /\ (pc = "done" /\ trigger = "serverErr") => ret # Nil

\* C27: the serving goroutine never blocks when reporting its result and always
\* finishes once the listen-and-serve call has returned, even if RunServer has
\* already returned or is in the drain: it sends at most one value on the error
\* channel (capacity 1), none when the result is the server-closed sentinel, and
\* closes the channel exactly once; a listen error arriving after the drain began
\* is never returned by RunServer.
C27_GoroutineFinishes ==
    /\ [](sends <= 1 /\ closes <= 1 /\ Len(serverErrChan) <= 1)
    /\ []((gpc = "returned" /\ ~ErrorsIs(gerr, ErrServerClosed)) =>
            (Len(serverErrChan) = 0 /\ ~chanClosed))
    /\ []((gpc \in {"closing", "exited"}) =>
            (sends = (IF ErrorsIs(gerr, ErrServerClosed) THEN 0 ELSE 1)))
    /\ [](gpc = "exited" <=> closes = 1)
    /\ [](trigger \in {"signal", "ctx"} => ret \notin FatalErrs)
    /\ (gpc = "returned") ~> (gpc = "exited")

C27_Witness ==
    /\ pc = "done"
    /\ trigger = "ctx"
    /\ gpc = "exited"
    /\ gerr = ErrAddrInUse
    /\ sends = 1
    /\ closes = 1
    /\ serverErrChan = <<ErrAddrInUse>>
    /\ ret = Nil

(***************************************************************************)
(* ErrorJSON: the order of its writes.                                     *)
(***************************************************************************)
\* C28, as stated: every ErrorJSON call writes the status line exactly once, after
\* all headers are set and before any body byte, and when serializing the error
\* payload fails it returns that failure without having written any status or
\* body.
C28_Original ==
    (wpc = "done" /\ called = "ErrorJSON") =>
        /\ wret # ErrUnsupportedType =>
              /\ Len(w.lines) = 1
              /\ w.lines[1].header = w.header
              /\ w.log[1].ev = "WriteHeader"
        /\ wret = ErrUnsupportedType => (w.lines = <<>> /\ w.body = <<>>)

(***************************************************************************)
(* UploadFiles: the error of the parse.                                    *)
(***************************************************************************)
\* C30, as stated: UploadFiles (its upload directory created) returns "the
\* uploaded file is too big." when, and only when, the request body exceeds
\* MaxFileSize; a multipart parse failure that is not a size violation (a body
\* that is not a multipart form) is reported as its own error and not as a
\* too-big error.
C30_Original ==
    (upc = "done" /\ uploaded = "UploadFiles" /\ ioFault.op # "mkdir") =>
        /\ uerr = ErrTooBig <=> BodyLen(parts) > MaxFileSize
        /\ (~formOK /\ BodyLen(parts) <= MaxFileSize) => uerr \notin {ErrTooBig, UNil}

(***************************************************************************)
(* A sequence of calls on one shared Tools: what each method does to the   *)
(* fields MaxFileSize, AllowedFileTypes, MaxJSONSize, AllowUnknownFields   *)
(* and ErrorResponseTemplate.                                              *)
(***************************************************************************)
\* the calls made on the shared Tools
MaxCalls == 2

ToolsConfigs ==
    [MaxFileSize : MaxFileSizes, AllowedFileTypes : AllowLists, MaxJSONSize : {0, 3},
     AllowUnknownFields : BOOLEAN, ErrorResponseTemplate : {"nil", "custom"}]

NoCall == [op |-> "none", failed |-> FALSE, fault |-> NoFault]

\* a response writer nothing is written to yet
FreshWriter == [header |-> NoHeaders, lines |-> <<>>, log |-> <<>>, body |-> <<>>]

\* the request of an upload: its parts, and the I/O fault it meets
UploadInput(ps, fault) ==
    [parts |-> ps, formOK |-> TRUE, allow |-> tools.AllowedFileTypes,
     maxFileSize |-> tools.MaxFileSize, fault |-> fault, disk |-> {}, seed |-> 0]

InitTools ==
    /\ ServerOff
    /\ JSONOff
    /\ RespOff
    /\ UploadOff
    /\ SlugOff
    /\ RandOff
    /\ RaceOff
    /\ PushOff
    /\ toolsCall \in {[tpc |-> "ready", t |-> c, initial |-> c, made |-> 0, last |-> NoCall] :
                         c \in ToolsConfigs}

\* the call op returns: the fields it leaves, and its outcome
Returned(op, fields, failed, fault) ==
    toolsCall' = [toolsCall EXCEPT !.t = fields, !.made = made + 1,
                                   !.last = [op |-> op, failed |-> failed, fault |-> fault]]

OthersUnchanged ==
    UNCHANGED <<serverVars, jsonVars, respVars, uploadVars, slugVars, randVars, raceVars,
                pushVars>>

\* t.ReadJSON(w, r, data)
ToolsReadJSON ==
    /\ tpc = "ready" /\ made < MaxCalls
    /\ \E b \in {<<"{", "a", "}">>, <<"{", "u", "}">>} :
          Returned("ReadJSON", tools,
                   ReadJSON(b, EOF, tools.MaxJSONSize, tools.AllowUnknownFields, TRUE) # JNil, NoFault)
    /\ OthersUnchanged

\* t.WriteJSON(w, status, data)
ToolsWriteJSON ==
    /\ tpc = "ready" /\ made < MaxCalls
    /\ \E v \in Values :
          Returned("WriteJSON", tools, WriteJSON(FreshWriter, 200, v, <<>>, TRUE).err # WNil, NoFault)
    /\ OthersUnchanged

\* t.ErrorJSON(w, err)
ToolsErrorJSON ==
    /\ tpc = "ready" /\ made < MaxCalls
    /\ Returned("ErrorJSON", tools,
                ErrorJSON(FreshWriter, "bad request", <<>>, tools.ErrorResponseTemplate, TRUE).err
                    # WNil,
                NoFault)
    /\ OthersUnchanged

\* t.RunServer(ctx, srv, shutdownTimeout): the whole call, with any of its results
ToolsRunServer ==
    /\ tpc = "ready" /\ made < MaxCalls
    /\ \E r \in {Nil} \cup FatalErrs : Returned("RunServer", tools, r # Nil, NoFault)
    /\ OthersUnchanged

\* t.Slugfy(s)
ToolsSlugfy ==
    /\ tpc = "ready" /\ made < MaxCalls
    /\ \E str \in {<<>>, <<"B", " ", "7">>} :
          Returned("Slugfy", tools, Slugfy(str).err # SNil, NoFault)
    /\ OthersUnchanged

\* t.RandomString(l)
ToolsRandomString ==
    /\ tpc = "ready" /\ made < MaxCalls
    /\ \E seed \in Seeds : Returned("RandomString", tools, Len(RandomString(1, seed)) # 1, NoFault)
    /\ OthersUnchanged

\* t.PushJSONToRemote(uri, data)
ToolsPushJSONToRemote ==
    /\ tpc = "ready" /\ made < MaxCalls
    /\ \E rem \in Remotes :
          Returned("PushJSONToRemote", tools,
                   PushJSONToRemote("http://example.com/some/path",
                                    JSONResponse(FALSE, "foo", NoData), <<>>, rem).err # PNil,
                   NoFault)
    /\ OthersUnchanged

\* t.UploadFiles(r, uploadDir)
ToolsUploadFiles ==
    /\ tpc = "ready" /\ made < MaxCalls
    /\ \E ps \in {<<>>, RaceParts}, fault \in {NoFault, [op |-> "mkdir", at |-> 0]} :
          LET r == UploadFiles(UploadInput(ps, fault), <<>>)
          IN  Returned("UploadFiles", [tools EXCEPT !.MaxFileSize = r.maxFileSize],
                       r.err # UNil, fault)
    /\ OthersUnchanged

\* t.UploadOneFile(r, uploadDir): it calls t.UploadFiles
ToolsUploadOneFile ==
    /\ tpc = "ready" /\ made < MaxCalls
    /\ \E ps \in {<<>>, RaceParts}, fault \in {NoFault, [op |-> "mkdir", at |-> 0]} :
          LET r == UploadOneFile(UploadInput(ps, fault), <<>>)
          IN  Returned("UploadOneFile", [tools EXCEPT !.MaxFileSize = r.maxFileSize],
                       r.err # UNil, fault)
    /\ OthersUnchanged

NextTools ==
    \/ ToolsReadJSON
    \/ ToolsWriteJSON
    \/ ToolsErrorJSON
    \/ ToolsRunServer
    \/ ToolsSlugfy
    \/ ToolsRandomString
    \/ ToolsPushJSONToRemote
    \/ ToolsUploadFiles
    \/ ToolsUploadOneFile

SpecTools == InitTools /\ [][NextTools]_vars

(***************************************************************************)
(* The shared Tools: the properties.                                       *)
(***************************************************************************)
\* the call just made was UploadFiles (directly or through UploadOneFile), with
\* its upload directory created
UploadedIntoDir(c) == c.op \in {"UploadFiles", "UploadOneFile"} /\ c.fault.op # "mkdir"

\* C29: the only write any operation makes to the shared Tools configuration is
\* UploadFiles setting MaxFileSize to 1,073,741,824 when it is exactly 0 and the
\* upload directory was created successfully; ReadJSON, WriteJSON, ErrorJSON,
\* RunServer, Slugfy, RandomString, PushJSONToRemote, and UploadFiles with a
\* non-zero MaxFileSize or a failed directory creation, leave every
\* configuration field unchanged.
C29_OnlyWrite ==
    [][LET c == toolsCall'.last
           writes == UploadedIntoDir(c) /\ tools.MaxFileSize = 0
       IN  /\ writes => toolsCall'.t = [tools EXCEPT !.MaxFileSize = 1073741824]
           /\ ~writes => toolsCall'.t = tools]_vars

C29_Witness ==
    /\ tpc = "ready"
    /\ made = 2
    /\ last.op = "ReadJSON"
    /\ tInitial.MaxFileSize = 0
    /\ tools = [tInitial EXCEPT !.MaxFileSize = 1073741824]

====
